---- MODULE Spec2Model ----
(***************************************************************************)
(* A model of the remote execution and orchestration layer of dashblock:   *)
(* the SSH connection pool (SshService), the server lifecycle handlers of  *)
(* ServersService (create / start / stop / remove and their background     *)
(* phases), the plan limits, the port allocator and the status monitor.    *)
(*                                                                         *)
(* Every `await` of the TypeScript source is a point where another         *)
(* handler may run, so every handler is cut into one action per awaited    *)
(* database or SSH call.  A remote command is one step whose outcome       *)
(* (returns / throws) is chosen nondeterministically.                      *)
(*                                                                         *)
(* The specifications of the module:                                       *)
(*   SpecPool   the connection pool alone;                                 *)
(*   SpecLife   start / stop / monitor on provisioned servers;             *)
(*   SpecAsync  the same without changes made on the host, with fairness   *)
(*              of the background phases;                                  *)
(*   SpecMon    the monitor, two sweeps, with the history of its sweeps;   *)
(*   SpecProv   create / setup / remove;                                   *)
(*   SpecQuota  the same on accounts near the ceiling of their plan;       *)
(*   SpecPorts  allocatePorts alone;                                       *)
(*   SpecHost   InstancesService.remove with ServersService.remove;        *)
(*   SpecEvict  InstancesService.remove with callers of getConnection;     *)
(*   SpecExec   executeCommand on the pool;                                *)
(*   SpecFiles  one call of FileManagementService;                         *)
(*   SpecVault  start of the process and the encryption of one secret;     *)
(*   SpecPurge  ServersService.remove against ServersService.start;        *)
(*   SpecCache  SshService.listDirectory and its directoryCache;           *)
(*   SpecTypes  the extension check of FileManagementService.uploadFile;   *)
(*   SpecInst   InstancesService.create / update / recheckConnection and   *)
(*              testAndUpdateInstance, with fairness of the tests;         *)
(*   SpecSetup  setupServerOnRemote for the three kinds of software;       *)
(*   SpecEarly  ServersService.create with ServersService.start;           *)
(*   SpecRcon   RconService.getPlayers with stop and the monitor;          *)
(*   SpecCreds  InstancesService.update with callers of getConnection.     *)
(***************************************************************************)
EXTENDS Integers, FiniteSets, Sequences, TLC

\* ------------------------------------------------------------------ bounds
\* Clients the pool may construct (new Client()) in one behaviour.
MaxClients == 3
\* The number of times the clock is advanced in one behaviour.
MaxAdvances == 1

\* Runs of the monitor's cron job in one behaviour.
MaxTicks == 1
\* Runs of the cron job where two sweeps in a row are looked at.
MaxSweeps == 2
\* The longest path string asked of FileManagementService.
MaxPathLen == 5
\* The longest plaintext encrypted.
MaxTextLen == 3
\* The cipher is looked at in the small: bytes are 0..ByteRange-1, a block
\* (and the IV) has BlockSize bytes, a salt one byte.
ByteRange == 4
BlockSize == 2
\* allocatePorts is tried on hosts with 0..MaxFew servers, and with all
\* slots of a range but one, or all of them, taken.
MaxFew == 3
\* ... whose ports leave a hole at one of the offsets 0..MaxHole.
MaxHole == 2
\* Calls of InstancesService.remove per account.
MaxHostRemovals == 2
\* Requests served while two sweeps in a row are looked at.
MaxSweepRequests == 1
\* Requests made of InstancesService (create, update, recheck) for one host.
MaxHostOps == 2
\* The longest destinationPath of an upload, in glyphs.
MaxDestLen == 3
\* The number of times the clock of listDirectory is advanced.
MaxElapses == 2
\* Changes of a unit's state made on the host itself (a manual start, a crash).
MaxEnv == 1

\* ------------------------------------------------------- program constants
\* SshService.CONNECTION_TIMEOUT, 5 * 60 * 1000 ms, counted in minutes.
CONNECTION_TIMEOUT == 5
\* PortAllocationService port ranges.
GAME_PORT_START == 25565
GAME_PORT_END == 25664
RCON_PORT_START == 25665
RCON_PORT_END == 25764
\* PlanLimitsService.PLAN_CONFIGS: maxServers -1 means unlimited.
Unlimited == -1
\* ENCRYPTION_KEY: Joi.string().min(32)
MinKeyLength == 32
\* SshService.CACHE_TTL, 30000 ms, counted in units of 10 s.
CACHE_TTL == 3

Hosts == {"h1", "h2"}
Callers == {"a", "b"}
Clients == 1..MaxClients
NoClient == 0

VARIABLES
    \* SshService.connections: host id -> the client of the pooled entry
    connections,
    \* SSHConnection.lastUsed of the entry built around each client
    lastUsed,
    \* ssh2 Client objects: "unused" (not constructed), "connecting",
    \* "open" (ready, end() not called), "ended"
    clientState,
    \* the host a client was constructed for
    clientHost,
    \* Date.now(), in minutes, and the number of times it was advanced
    now,
    advances,
    \* one getConnection call per caller: pc, host, t (now at entry),
    \* ex (the entry found in the map), cl (the client being connected),
    \* got (the client returned)
    call,
    \* User.planType
    plan,
    \* the minecraftServer table: server id -> row (exists = FALSE: no row)
    db,
    \* who wrote the row last: <<"req", p>> (the handler of request p),
    \* <<"bg", p>> (its background phase), <<"monitor", 0>>, <<"none", 0>>
    writer,
    \* the host: is the systemd unit of the server active, does its
    \* directory exist, what is server.jar, is its unit file installed
    active, dir, jar, unit,
    \* the requests being served: the handler's position (pc), the position
    \* of the background phase it started (bg), and their locals
    proc,
    \* ServerMonitorService: the checkServerStatus call of each server
    chk,
    \* counters behind MaxTicks and MaxEnv
    ticks, envs,
    \* history of the monitor's sweeps, kept only where a property speaks of
    \* "two sweeps in a row": what the last sweep started from and whether
    \* it ran undisturbed (see Sweep)
    sweep,
    \* one call of PortAllocationService.allocatePorts looked at alone: the
    \* rows findMany returned and what the call answered
    alloc,
    \* user.servers beyond the rows of `db`: for each account the number of
    \* further servers it owns, all stopped, that no request is about
    others,
    \* the remoteInstance row of each account (its host) and the
    \* InstancesService.remove call of the account: position, answer and
    \* the number of calls made
    inst,
    \* one call of FileManagementService looked at alone (operation, requested
    \* path, position, answer, the temporary local copy of an upload, the
    \* sessions and commands it asked of SshService) and the directoryCache
    fm,
    \* the master secret of the environment (its length, 0 when unset),
    \* whether the process came up, and one secret on its way through an
    \* encrypt (and decrypt): who encrypted, plaintext, token, the secret the
    \* key was derived from, the decrypted text
    vault,
    \* SshService.directoryCache: "hostId:path" -> the timestamp of the
    \* cached listing (NoEntry: no entry under the key)
    directoryCache,
    \* the calls of SshService.listDirectory (position, key, Date.now() at
    \* entry, answer; at "exec" the listing command has been issued), their
    \* clock in units of 10 s and the number of times it was advanced
    ls,
    \* the extension check of one FileManagementService.uploadFile call:
    \* position, destinationPath, file extension, verdict
    upload,
    \* the remoteInstance row of one account (status, discovered capacity,
    \* lastErrorMsg, lastCheckAt as the number of the test that stamped it,
    \* the version of its address and credentials), the requests made of
    \* InstancesService (each starts the testAndUpdateInstance call of its
    \* number), for each client of the pool the version of the credentials
    \* it was connected with, and for each caller of executeCommand the
    \* version of the credentials it read from the row and passed
    remote,
    \* one setupServerOnRemote looked at alone, from the acquisition of the
    \* server binary on: the software variant, the position, server.jar on
    \* the host, what the installer made (fabric-server-launch.jar; run.sh
    \* or the legacy jar of Forge), whether Forge is started by run.sh, and
    \* the status of the row
    setup,
    \* RconService.getPlayers: for each server, whether a call is between
    \* its read of the row and its update ("list") or not ("idle")
    rcon

\* The state of listDirectory, of the extension check of uploadFile and of
\* the host record with its connection tests.
moreVars == <<directoryCache, ls, upload, remote, setup, rcon>>

poolVars == <<connections, lastUsed, clientState, clientHost, now, advances, call>>

dbVars == <<plan, db, writer>>
hostVars == <<active, dir, jar, unit>>
monVars == <<chk, ticks>>
srvVars == <<plan, db, writer, active, dir, jar, unit, proc, chk, ticks, envs,
            sweep, alloc, others, inst, fm, vault, moreVars>>
\* What the handlers of ServersService and the monitor never touch.
restVars == <<connections, lastUsed, clientState, clientHost, now, advances,
             call, sweep, alloc, others, inst, fm, vault, moreVars>>
\* The same, for the steps of the monitor that record their history.
fixedVars == <<connections, lastUsed, clientState, clientHost, now, advances,
              call, alloc, others, inst, fm, vault, moreVars>>

\* Everything but the call of FileManagementService and the vault.
coreVars == <<connections, lastUsed, clientState, clientHost, now, advances,
              call, plan, db, writer, active, dir, jar, unit, proc, chk, ticks,
              envs, sweep, alloc, others, inst>>

vars == <<coreVars, fm, vault, moreVars>>

IdleCall == [pc |-> "idle", host |-> "h1", t |-> 0, ex |-> NoClient,
             cl |-> NoClient, got |-> NoClient]

\* The next Client object `new Client()` returns.
FreshClient == CHOOSE c \in Clients : clientState[c] = "unused" /\
                   \A d \in Clients : clientState[d] = "unused" => c <= d

HasFreshClient == \E c \in Clients : clientState[c] = "unused"

\* getConnection, line 199: is the cached entry young enough to be probed?
CachedUsable(h, t) ==
    /\ connections[h] # NoClient
    /\ t - lastUsed[connections[h]] < CONNECTION_TIMEOUT

InitPool ==
    /\ connections = [h \in Hosts |-> NoClient]
    /\ lastUsed = [c \in Clients |-> 0]
    /\ clientState = [c \in Clients |-> "unused"]
    /\ clientHost = [c \in Clients |-> "h1"]
    /\ now = 0
    /\ advances = 0
    /\ call = [r \in Callers |-> IdleCall]

\* SshService.connect: construct a client and start connecting it.
StartConnect(r, h, t) ==
    /\ HasFreshClient
    /\ clientState' = [clientState EXCEPT ![FreshClient] = "connecting"]
    /\ clientHost' = [clientHost EXCEPT ![FreshClient] = h]
    /\ call' = [call EXCEPT ![r] = [pc |-> "connect", host |-> h, t |-> t,
                                    ex |-> NoClient, cl |-> FreshClient,
                                    got |-> NoClient]]

\* A getConnection that probes the cached entry however long it has idled.
GetConnection_NoIdleCheck(r, h) ==
    /\ call[r].pc = "idle"
    /\ IF connections[h] # NoClient
       THEN /\ call' = [call EXCEPT ![r] = [pc |-> "health", host |-> h,
                            t |-> now, ex |-> connections[h],
                            cl |-> NoClient, got |-> NoClient]]
            /\ UNCHANGED <<clientState, clientHost>>
       ELSE StartConnect(r, h, now)
    /\ UNCHANGED <<connections, lastUsed, now, advances>>

\* getConnection up to its first await: either the health probe of the
\* cached entry or the connect of a new client.
GetConnection(r, h) ==
    /\ call[r].pc = "idle"
    /\ IF CachedUsable(h, now)
       THEN /\ call' = [call EXCEPT ![r] = [pc |-> "health", host |-> h,
                            t |-> now, ex |-> connections[h],
                            cl |-> NoClient, got |-> NoClient]]
            /\ UNCHANGED <<clientState, clientHost>>
       ELSE StartConnect(r, h, now)
    /\ UNCHANGED <<connections, lastUsed, now, advances>>

\* testConnectionHealth resolved: the entry is refreshed and returned.
HealthOk(r) ==
    /\ call[r].pc = "health"
    /\ clientState[call[r].ex] = "open"
    /\ lastUsed' = [lastUsed EXCEPT ![call[r].ex] = call[r].t]
    /\ call' = [call EXCEPT ![r] = [IdleCall EXCEPT !.pc = "done",
                            !.host = call[r].host, !.got = call[r].ex]]
    /\ UNCHANGED <<connections, clientState, clientHost, now, advances>>

\* testConnectionHealth rejected (exec error or 5 s timeout): the client is
\* ended, the map entry of the host deleted, and a new client connected.
HealthFail(r) ==
    /\ call[r].pc = "health"
    /\ HasFreshClient
    /\ connections' = [connections EXCEPT ![call[r].host] = NoClient]
    /\ LET ended == [clientState EXCEPT ![call[r].ex] = "ended"]
           c == FreshClient
       IN  /\ clientState' = [ended EXCEPT ![c] = "connecting"]
           /\ clientHost' = [clientHost EXCEPT ![c] = call[r].host]
           /\ call' = [call EXCEPT ![r].pc = "connect", ![r].cl = c]
    /\ UNCHANGED <<lastUsed, now, advances>>

\* connect resolved ('ready'): the new entry replaces whatever the map holds.
ConnectReady(r) ==
    /\ call[r].pc = "connect"
    /\ clientState' = [clientState EXCEPT ![call[r].cl] = "open"]
    /\ connections' = [connections EXCEPT ![call[r].host] = call[r].cl]
    /\ lastUsed' = [lastUsed EXCEPT ![call[r].cl] = call[r].t]
    /\ call' = [call EXCEPT ![r] = [IdleCall EXCEPT !.pc = "done",
                            !.host = call[r].host, !.got = call[r].cl]]
    /\ UNCHANGED <<clientHost, now, advances>>

\* connect rejected ('error', or the 15 s timeout that ends the client).
ConnectFail(r) ==
    /\ call[r].pc = "connect"
    /\ clientState' = [clientState EXCEPT ![call[r].cl] = "ended"]
    /\ call' = [call EXCEPT ![r] = [IdleCall EXCEPT !.pc = "failed",
                            !.host = call[r].host]]
    /\ UNCHANGED <<connections, lastUsed, clientHost, now, advances>>

\* The caller has its client (or its error) and may call again.
Finish(r) ==
    /\ call[r].pc \in {"done", "failed", "timeout", "returned"}
    /\ call' = [call EXCEPT ![r] = IdleCall]
    /\ UNCHANGED <<connections, lastUsed, clientState, clientHost, now, advances>>

\* SshService.closeConnection.
CloseConnection(h) ==
    /\ connections[h] # NoClient
    /\ clientState' = [clientState EXCEPT ![connections[h]] = "ended"]
    /\ connections' = [connections EXCEPT ![h] = NoClient]
    /\ UNCHANGED <<lastUsed, clientHost, now, advances, call>>

\* Time passes: just less than the idle timeout, or all of it.
Advance(dt) ==
    /\ advances < MaxAdvances
    /\ advances' = advances + 1
    /\ now' = now + dt
    /\ UNCHANGED <<connections, lastUsed, clientState, clientHost, call>>

NextPool ==
    \/ \E r \in Callers, h \in Hosts : GetConnection(r, h) /\ UNCHANGED srvVars
    \/ \E r \in Callers : HealthOk(r) /\ UNCHANGED srvVars
    \/ \E r \in Callers : HealthFail(r) /\ UNCHANGED srvVars
    \/ \E r \in Callers : ConnectReady(r) /\ UNCHANGED srvVars
    \/ \E r \in Callers : ConnectFail(r) /\ UNCHANGED srvVars
    \/ \E r \in Callers : Finish(r) /\ UNCHANGED srvVars
    \/ \E h \in Hosts : CloseConnection(h) /\ UNCHANGED srvVars
    \/ \E dt \in {CONNECTION_TIMEOUT - 1, CONNECTION_TIMEOUT} :
          Advance(dt) /\ UNCHANGED srvVars

\* ------------------------------------------------------- the listing cache
\* `${instanceId}:${path}`: the path string is taken as it is given, so
\* "/a" and "/a/" are two keys of one directory.
CacheKeys == {<<"h1", "/a">>, <<"h1", "/a/">>, <<"h2", "/a">>}
NoEntry == -1
IdleList == [pc |-> "idle", key |-> <<"h1", "/a">>, t |-> 0, out |-> "none"]
NoListing == [now |-> 0, elapses |-> 0,
              call |-> [r \in Callers |-> IdleList]]

\* listDirectory up to its await: the cached data, or the listing command.
ListDirectory(r, k) ==
    /\ ls.call[r].pc = "idle"
    /\ ls' = IF directoryCache[k] # NoEntry
                 /\ ls.now - directoryCache[k] < CACHE_TTL
             THEN [ls EXCEPT !.call[r] =
                     [pc |-> "done", key |-> k, t |-> ls.now,
                      out |-> "cached"]]
             ELSE [ls EXCEPT !.call[r] =
                     [pc |-> "exec", key |-> k, t |-> ls.now,
                      out |-> "none"]]
    /\ UNCHANGED directoryCache

\* listDirectory after executeCommand: the result is parsed and cached
\* under the `now` of the entry of the call; a command that throws or ends
\* with a non-zero exit status is rethrown and nothing is cached.
ListExec(r, ok) ==
    /\ ls.call[r].pc = "exec"
    /\ directoryCache' = IF ok
          THEN [directoryCache EXCEPT ![ls.call[r].key] = ls.call[r].t]
          ELSE directoryCache
    /\ ls' = [ls EXCEPT !.call[r].pc = "done",
                        !.call[r].out = IF ok THEN "fresh" ELSE "failed"]

\* The caller has its listing (or its error) and may call again.
ListReturn(r) ==
    /\ ls.call[r].pc = "done"
    /\ ls' = [ls EXCEPT !.call[r] = IdleList]
    /\ UNCHANGED directoryCache

\* Time passes: 10 s, or just less than the TTL.
Elapse(dt) ==
    /\ ls.elapses < MaxElapses
    /\ ls' = [ls EXCEPT !.now = @ + dt, !.elapses = @ + 1]
    /\ UNCHANGED directoryCache

NextCache ==
    \/ \E r \in Callers, k \in CacheKeys :
          ListDirectory(r, k) /\ UNCHANGED <<coreVars, fm, vault, upload, remote, setup, rcon>>
    \/ \E r \in Callers, ok \in BOOLEAN :
          ListExec(r, ok) /\ UNCHANGED <<coreVars, fm, vault, upload, remote, setup, rcon>>
    \/ \E r \in Callers :
          ListReturn(r) /\ UNCHANGED <<coreVars, fm, vault, upload, remote, setup, rcon>>
    \/ \E dt \in {1, CACHE_TTL - 1} :
          Elapse(dt) /\ UNCHANGED <<coreVars, fm, vault, upload, remote, setup, rcon>>

\* ------------------------------------------------ upload: file type rules
\* str.startsWith(prefix)
StartsWith(str, prefix) ==
    Len(str) >= Len(prefix) /\ SubSeq(str, 1, Len(prefix)) = prefix

\* A destinationPath is a string of glyphs: "/", "." and the words the
\* rules are made of, each standing for its letters; "logs" is a word of no
\* rule.
Glyphs == {"/", ".", "mods", "plugins", "config", "world", "_nether",
           "datapacks", "resourcepacks", "logs"}
ConfigExtensions == {".json", ".toml", ".yml", ".yaml", ".properties", ".txt",
                     ".cfg", ".conf"}
WorldExtensions == {".dat", ".mca", ".json", ".txt"}
\* Object.entries(FILE_TYPE_RULES), in insertion order.
FILE_TYPE_RULES ==
    << [path |-> <<"/", "mods">>, ext |-> {".jar"}],
       [path |-> <<"/", "plugins">>, ext |-> {".jar"}],
       [path |-> <<"/", "config">>, ext |-> ConfigExtensions],
       [path |-> <<".">>, ext |-> ConfigExtensions],
       [path |-> <<"/", "world">>, ext |-> WorldExtensions],
       [path |-> <<"/", "world", "_nether">>, ext |-> WorldExtensions],
       [path |-> <<"/", "world", "_the_end">>, ext |-> WorldExtensions],
       [path |-> <<"/", "datapacks">>, ext |-> {".zip", ".json"}],
       [path |-> <<"/", "resourcepacks">>, ext |-> {".zip"}] >>
DEFAULT_ALLOWED_EXTENSIONS == {".jar"} \cup ConfigExtensions

\* str.includes(sub)
Includes(str, sub) ==
    \E i \in 1..(Len(str) - Len(sub) + 1) :
        SubSeq(str, i, i + Len(sub) - 1) = sub

\* getAllowedExtensions: the list of the first rule that matches, else the
\* default list.
GetAllowedExtensions(destinationPath) ==
    LET normalizedPath == IF StartsWith(destinationPath, <<"/">>)
                          THEN destinationPath
                          ELSE <<"/">> \o destinationPath
        Matches(rule) ==
            \/ rule.path = <<".">>
                  /\ (destinationPath = <<".">> \/ destinationPath = <<>>)
            \/ StartsWith(normalizedPath, rule.path)
            \/ Includes(normalizedPath, rule.path)
        hits == {i \in DOMAIN FILE_TYPE_RULES : Matches(FILE_TYPE_RULES[i])}
    IN  IF hits = {} THEN DEFAULT_ALLOWED_EXTENSIONS
        ELSE FILE_TYPE_RULES[CHOOSE i \in hits : \A j \in hits : i <= j].ext

\* path.extname(sanitizedFilename).toLowerCase()
ToLowerCase(ext) == IF ext = ".JAR" THEN ".jar" ELSE ext

NoUpload == [pc |-> "idle", dest |-> <<>>, ext |-> ".txt", out |-> "none"]

\* uploadFile, the extension check: BadRequest when the extension of the
\* file is not in the list of its destination.
CheckExtension(destinationPath, ext) ==
    /\ upload.pc = "idle"
    /\ upload' = [pc |-> "checked", dest |-> destinationPath, ext |-> ext,
                  out |-> IF ToLowerCase(ext) \in
                               GetAllowedExtensions(destinationPath)
                          THEN "accepted" ELSE "BadRequest"]

\* The call has ended; another may be made.
UploadOver ==
    /\ upload.pc = "checked"
    /\ upload' = NoUpload

NextTypes ==
    \/ \E n \in 0..MaxDestLen :
          \E d \in [1..n -> Glyphs], ext \in {".jar", ".JAR", ".json", ".zip"} :
             CheckExtension(d, ext)
             /\ UNCHANGED <<coreVars, fm, vault, directoryCache, ls, remote, setup, rcon>>
    \/ UploadOver /\ UNCHANGED <<coreVars, fm, vault, directoryCache, ls, remote, setup, rcon>>

\* ------------------------------------------- InstancesService: the host row
Tests == 1..MaxHostOps
NoTest == [pc |-> "idle", kind |-> "none", creds |-> 0, totalRamMb |-> 0,
           totalCpuCores |-> 0, diskSpaceGb |-> 0, osType |-> "null",
           msg |-> "null", clean |-> TRUE]
NoHostRow == [status |-> "NONE", totalRamMb |-> 0, totalCpuCores |-> 0,
              diskSpaceGb |-> 0, osType |-> "null", lastErrorMsg |-> "null",
              lastCheckAt |-> 0, creds |-> 0]
NoRemote == [row |-> NoHostRow, ops |-> 0,
             test |-> [t \in Tests |-> NoTest],
             built |-> [c \in Clients |-> 0],
             asked |-> [r \in Callers |-> 0]]

\* What a command may print: nothing, a number, a number followed by other
\* text, other text.
Stdouts == {<<>>, <<"2">>, <<"2", "x">>, <<"x">>}
NaN == -1

\* parseInt(stdout): the digits the string starts with.
ParseInt(stdout) ==
    IF stdout # <<>> /\ Head(stdout) = "2" THEN 2 ELSE NaN

\* parseInt(stdout) || 0
ParseOrZero(stdout) == IF ParseInt(stdout) = NaN THEN 0 ELSE ParseInt(stdout)

\* The request of number remote.ops + 1 starts the test of that number.
StartTest(kind, row) ==
    /\ remote.ops < MaxHostOps
    /\ remote' = [remote EXCEPT
          !.ops = @ + 1,
          !.row = row,
          !.test[remote.ops + 1] =
              [NoTest EXCEPT !.pc = "connect", !.kind = kind,
                             !.creds = row.creds]]

\* create: the row is inserted PENDING and the test started, not awaited.
InstanceCreate ==
    /\ remote.row.status = "NONE"
    /\ StartTest("create", [NoHostRow EXCEPT !.status = "PENDING", !.creds = 1])

\* update: address, port, user and credentials are written (changed or as
\* they were), the status set to PENDING and the test started, not awaited.
InstanceUpdate(changed) ==
    /\ remote.row.status # "NONE"
    /\ StartTest("update",
                 [remote.row EXCEPT !.status = "PENDING",
                     !.creds = IF changed THEN @ + 1 ELSE @])

\* recheckConnection: the test is run on the row as it is.
InstanceRecheck ==
    /\ remote.row.status # "NONE"
    /\ StartTest("recheck", remote.row)

\* testAndUpdateInstance: testConnection resolved, true or (on 'error' or
\* after 15 s) false.
TestConnection(t, canConnect) ==
    /\ remote.test[t].pc = "connect"
    /\ remote' = [remote EXCEPT !.test[t].pc =
                     IF canConnect THEN "ram" ELSE "refused"]

\* getSystemInfo: one executeCommand and what is made of its result.  A
\* command that throws (connection error, 30 s timeout) ends getSystemInfo;
\* the exit status is not looked at and an output that is no number counts
\* as 0, an empty OS name as 'Unknown'.
SubProbe(t, throws, exitCode, stdout) ==
    LET pc == remote.test[t].pc
        ok == exitCode = 0 /\ ParseInt(stdout) # NaN
    IN  /\ pc \in {"ram", "cpu", "disk", "os"}
        /\ remote' = [remote EXCEPT !.test[t] =
             IF throws THEN [@ EXCEPT !.pc = "caught", !.msg = "message",
                                      !.clean = FALSE]
             ELSE CASE pc = "ram" ->
                         [@ EXCEPT !.pc = "cpu", !.clean = @ /\ ok,
                                   !.totalRamMb = ParseOrZero(stdout)]
                    [] pc = "cpu" ->
                         [@ EXCEPT !.pc = "disk", !.clean = @ /\ ok,
                                   !.totalCpuCores = ParseOrZero(stdout)]
                    [] pc = "disk" ->
                         [@ EXCEPT !.pc = "os", !.clean = @ /\ ok,
                                   !.diskSpaceGb = ParseOrZero(stdout)]
                    [] pc = "os" ->
                         [@ EXCEPT !.pc = "info",
                                   !.clean = @ /\ exitCode = 0 /\ stdout # <<>>,
                                   !.osType = IF stdout = <<>> THEN "Unknown"
                                              ELSE "name"]]

\* A test that returns on a refused connection without an update.
TestWrite_RefusedUnrecorded(t) ==
    LET test == remote.test[t]
    IN  /\ test.pc \in {"refused", "caught", "info"}
        /\ remote' = [remote EXCEPT
              !.test[t].pc = "done",
              !.row = IF remote.row.status = "NONE" \/ test.pc = "refused"
                      THEN @
                      ELSE IF test.pc = "info"
                      THEN [@ EXCEPT !.status = "CONNECTED",
                               !.totalRamMb = test.totalRamMb,
                               !.totalCpuCores = test.totalCpuCores,
                               !.diskSpaceGb = test.diskSpaceGb,
                               !.osType = test.osType,
                               !.lastCheckAt = t,
                               !.lastErrorMsg = "null"]
                      ELSE [@ EXCEPT !.status = "ERROR",
                               !.lastErrorMsg = test.msg,
                               !.lastCheckAt = t]]

\* testAndUpdateInstance: the update that ends the test.  ERROR with the
\* message when the connection was refused or getSystemInfo threw, else
\* CONNECTED with the system information and no message.
TestWrite(t) ==
    LET test == remote.test[t]
    IN  /\ test.pc \in {"refused", "caught", "info"}
        /\ remote' = [remote EXCEPT
              !.test[t].pc = "done",
              !.row = IF remote.row.status = "NONE" THEN @
                      ELSE IF test.pc = "info"
                      THEN [@ EXCEPT !.status = "CONNECTED",
                               !.totalRamMb = test.totalRamMb,
                               !.totalCpuCores = test.totalCpuCores,
                               !.diskSpaceGb = test.diskSpaceGb,
                               !.osType = test.osType,
                               !.lastCheckAt = t,
                               !.lastErrorMsg = "null"]
                      ELSE [@ EXCEPT !.status = "ERROR",
                               !.lastErrorMsg =
                                   IF test.pc = "refused"
                                   THEN "Failed to establish SSH connection"
                                   ELSE test.msg,
                               !.lastCheckAt = t]]

\* A continuation of test t: the event loop runs it once the awaited
\* connection attempt, command or query has settled.
TestStep(t) ==
    \/ \E canConnect \in BOOLEAN : TestConnection(t, canConnect)
    \/ \E throws \in BOOLEAN, exitCode \in {0, 1}, stdout \in Stdouts :
          SubProbe(t, throws, exitCode, stdout)
    \/ TestWrite(t)

InstVars == <<coreVars, fm, vault, directoryCache, ls, upload, setup, rcon>>

NextInst ==
    \/ InstanceCreate /\ UNCHANGED InstVars
    \/ \E changed \in BOOLEAN : InstanceUpdate(changed) /\ UNCHANGED InstVars
    \/ InstanceRecheck /\ UNCHANGED InstVars
    \/ \E t \in Tests : TestStep(t) /\ UNCHANGED InstVars

\* ------------------------------------- setupServerOnRemote: the software
\* DIRECT: a server.jar downloaded from a URL (PAPER, PURPUR, and VANILLA
\* after the manifest lookup); FABRIC and FORGE run an installer.
Variants == {"DIRECT", "FABRIC", "FORGE"}
\* A file on the host: missing, of 0 bytes, or with content.
FileStates == {"none", "empty", "full"}
NoSetup == [type |-> "DIRECT", pc |-> "idle", jar |-> "none", made |-> "none",
            runsh |-> FALSE, status |-> "STOPPED"]

\* The catch block of setupServerOnRemote is entered.
Thrown == [setup EXCEPT !.pc = "catch"]

\* setupServerOnRemote, after mkdir: the variant decides how the binary is
\* acquired.
SetupAcquire(type) ==
    /\ setup.pc = "idle"
    /\ setup' = [setup EXCEPT !.type = type,
                    !.pc = IF type = "DIRECT" THEN "download" ELSE "installer"]

\* The download command (curl, else wget): it leaves server.jar in some
\* state; its exit status is not looked at.
Download(left, throws) ==
    /\ setup.pc = "download"
    /\ setup' = IF throws THEN Thrown
                ELSE [setup EXCEPT !.pc = "verify", !.jar = left]

\* `ls -lh server.jar && stat -c%s server.jar`: a size of 0, or no output,
\* is thrown as an error.
VerifyDownload(throws) ==
    /\ setup.pc = "verify"
    /\ setup' = IF throws \/ setup.jar # "full" THEN Thrown
                ELSE [setup EXCEPT !.pc = "chmod"]

\* installFabricServer / installForgeServer: the installer is downloaded
\* and run, the directory listed; the results are logged.  Forge makes a
\* run.sh (modern) or a jar (legacy).
RunInstaller(made, runsh, throws) ==
    /\ setup.pc = "installer"
    /\ runsh => setup.type = "FORGE"
    /\ setup' = IF throws THEN Thrown
                ELSE [setup EXCEPT !.pc = "check", !.made = made,
                                   !.runsh = runsh]

\* installFabricServer / installForgeServer: `test -f` of what the
\* installer made.  Fabric copies fabric-server-launch.jar to server.jar,
\* or else the jar `find` finds; Forge keeps run.sh, or else copies the jar
\* `find` finds; nothing found is thrown.  The exit status of cp is not
\* looked at; Fabric's `ls -lh server.jar && file server.jar` is logged.
UseInstalled(found, copies, throws) ==
    LET fromTest == setup.made # "none"
                      /\ (setup.type = "FORGE" => setup.runsh)
        source == IF fromTest THEN setup.made ELSE found
    IN  /\ setup.pc = "check"
        /\ setup.type = "FORGE" /\ ~setup.runsh => found = setup.made
        /\ setup' =
             IF throws \/ source = "none" THEN Thrown
             ELSE IF setup.type = "FORGE" /\ fromTest
             THEN [setup EXCEPT !.pc = "chmod"]
             ELSE [setup EXCEPT !.pc = "chmod",
                                !.jar = IF copies THEN source ELSE @]

\* setupServerOnRemote after the acquisition: permissions and ownership,
\* eula and server.properties, the supervisor unit.
Configure(throws) ==
    /\ setup.pc \in {"chmod", "properties", "unit"}
    /\ setup' = IF throws THEN Thrown
                ELSE [setup EXCEPT !.pc = CASE setup.pc = "chmod" -> "properties"
                                           [] setup.pc = "properties" -> "unit"
                                           [] setup.pc = "unit" -> "done"]

\* The catch block: the row is set to ERROR.
SetupCatch ==
    /\ setup.pc = "catch"
    /\ setup' = [setup EXCEPT !.pc = "failed", !.status = "ERROR"]

SetupVars == <<coreVars, fm, vault, directoryCache, ls, upload, remote, rcon>>

NextSetup ==
    \/ \E type \in Variants : SetupAcquire(type) /\ UNCHANGED SetupVars
    \/ \E left \in FileStates, throws \in BOOLEAN :
          Download(left, throws) /\ UNCHANGED SetupVars
    \/ \E throws \in BOOLEAN : VerifyDownload(throws) /\ UNCHANGED SetupVars
    \/ \E made \in FileStates, runsh \in BOOLEAN, throws \in BOOLEAN :
          RunInstaller(made, runsh, throws) /\ UNCHANGED SetupVars
    \/ \E found \in FileStates, copies \in BOOLEAN, throws \in BOOLEAN :
          UseInstalled(found, copies, throws) /\ UNCHANGED SetupVars
    \/ \E throws \in BOOLEAN : Configure(throws) /\ UNCHANGED SetupVars
    \/ SetupCatch /\ UNCHANGED SetupVars

\* ------------------------------------------------- accounts and the table
\* No call of FileManagementService is looked at.
NoFile == [op |-> "none", path |-> <<>>, pc |-> "done", out |-> "none",
           tmp |-> FALSE, sessions |-> 0, cmds |-> 0, cache |-> {}]
\* The vault is not looked at: the process runs with a proper secret.
NoVault == [secret |-> MinKeyLength, up |-> "running", by |-> "none",
            text |-> <<>>, token |-> <<>>, used |-> MinKeyLength, back |-> <<>>]

Users == {"u1", "u2"}
Servers == {"s1", "s2"}
\* Two requests are served at a time, numbered in the order they arrive.
Procs == {1, 2}

\* Request p is the next to arrive.
Arrives(p) ==
    /\ proc[p].op = "none"
    /\ \A q \in Procs : q < p => proc[q].op # "none"
Plans == {"FREE", "PRO", "PREMIUM"}

\* PlanLimitsService.PLAN_CONFIGS
MaxServersOf(pl) ==
    IF pl = "FREE" THEN 3 ELSE IF pl = "PRO" THEN 10 ELSE Unlimited

MaxRunningServersOf(pl) ==
    IF pl = "FREE" THEN 1 ELSE IF pl = "PRO" THEN 3 ELSE 10

NoRow == [exists |-> FALSE, userId |-> "u1", status |-> "STOPPED",
          gamePort |-> 0, rconPort |-> 0, lastStartedAt |-> FALSE,
          lastStoppedAt |-> FALSE, currentPlayers |-> FALSE]

\* The row prisma.minecraftServer.create writes in ServersService.create.
NewRow(u, g, r) == [NoRow EXCEPT !.exists = TRUE, !.userId = u,
                                 !.gamePort = g, !.rconPort = r]

\* user.servers of getUserLimits
ServersOf(u) == {s \in Servers : db[s].exists /\ db[s].userId = u}

\* getUserLimits: currentRunningServers counts RUNNING and STARTING rows.
CurrentRunningServers(u) ==
    Cardinality({s \in ServersOf(u) : db[s].status \in {"RUNNING", "STARTING"}})

\* A limit that lets an account at its running ceiling start one more.
CanStartMore_Inclusive(u) ==
    CurrentRunningServers(u) <= MaxRunningServersOf(plan[u])

CanStartMore(u) == CurrentRunningServers(u) < MaxRunningServersOf(plan[u])

\* getUserLimits: currentServers = user.servers.length
CurrentServers(u) == Cardinality(ServersOf(u)) + others[u]

\* A limit that lets an account at its ceiling create one more server.
CanCreateMore_Inclusive(u) ==
    \/ MaxServersOf(plan[u]) = Unlimited
    \/ CurrentServers(u) <= MaxServersOf(plan[u])

CanCreateMore(u) ==
    \/ MaxServersOf(plan[u]) = Unlimited
    \/ CurrentServers(u) < MaxServersOf(plan[u])

IdleProc == [op |-> "none", usr |-> "u1", srv |-> "s1", pc |-> "idle",
             bg |-> "none", step |-> 0, run |-> FALSE, bad |-> FALSE,
             resp |-> "none", gamePort |-> 0, rconPort |-> 0]

IdleChk == [pc |-> "idle", snap |-> "STOPPED", run |-> FALSE]

\* prisma.minecraftServer.update({where: {id: s}, data}) by writer w on an
\* existing row.
Update(s, row, w) ==
    /\ db' = [db EXCEPT ![s] = row]
    /\ writer' = [writer EXCEPT ![s] = w]

\* ------------------------------------------------ ServersService.start/stop

\* start, up to the end of enforceStartServerLimit.
StartLimit(p, u, s) ==
    /\ Arrives(p)
    /\ proc' = [proc EXCEPT ![p] =
          IF CanStartMore(u)
          THEN [IdleProc EXCEPT !.op = "start", !.usr = u, !.srv = s,
                                !.pc = "read"]
          ELSE [IdleProc EXCEPT !.op = "start", !.usr = u, !.srv = s,
                                !.pc = "done", !.resp = "Forbidden"]]
    /\ UNCHANGED <<dbVars, hostVars, monVars, envs>>

\* start: findFirst({id, userId}) and the two status checks.
StartRead(p) ==
    /\ proc[p].op = "start" /\ proc[p].pc = "read"
    /\ LET row == db[proc[p].srv]
           found == row.exists /\ row.userId = proc[p].usr
       IN proc' = [proc EXCEPT ![p] =
            IF ~found
            THEN [@ EXCEPT !.pc = "done", !.resp = "NotFound"]
            ELSE IF row.status \in {"RUNNING", "STARTING"}
            THEN [@ EXCEPT !.pc = "done", !.resp = "Conflict"]
            ELSE [@ EXCEPT !.pc = "flip"]]
    /\ UNCHANGED <<dbVars, hostVars, monVars, envs>>

\* start: update to STARTING, then startServerOnRemote runs to its first
\* await.  (An update of a row that is gone throws.)
StartFlip(p) ==
    /\ proc[p].op = "start" /\ proc[p].pc = "flip"
    /\ IF db[proc[p].srv].exists
       THEN /\ Update(proc[p].srv,
                      [db[proc[p].srv] EXCEPT !.status = "STARTING"],
                      <<"req", p>>)
            /\ proc' = [proc EXCEPT ![p].pc = "reread", ![p].bg = "read"]
       ELSE /\ proc' = [proc EXCEPT ![p].pc = "done", ![p].resp = "Error"]
            /\ UNCHANGED <<db, writer>>
    /\ UNCHANGED <<plan, hostVars, monVars, envs>>

\* start and stop: the final findUnique, whose row is the response.
Respond(p) ==
    /\ proc[p].op \in {"start", "stop"} /\ proc[p].pc = "reread"
    /\ proc' = [proc EXCEPT ![p].pc = "done",
                  ![p].resp = IF db[proc[p].srv].exists
                              THEN db[proc[p].srv].status ELSE "Error"]
    /\ UNCHANGED <<dbVars, hostVars, monVars, envs>>

\* The first await of every background phase (setupServerOnRemote,
\* startServerOnRemote, stopServerOnRemote, deleteServerOnRemote):
\* findUnique of the row; `if (!server) return`.
BgRead(p) ==
    /\ proc[p].op \in {"create", "start", "stop", "remove"}
    /\ proc[p].bg = "read"
    /\ proc' = [proc EXCEPT ![p].bg = IF db[proc[p].srv].exists
                                      THEN "exec" ELSE "done",
                            ![p].step = IF db[proc[p].srv].exists
                                        THEN 1 ELSE 0]
    /\ UNCHANGED <<dbVars, hostVars, monVars, envs>>

\* startServerOnRemote: `sudo systemctl start`.  The command returns (its
\* exit status is not looked at) or executeCommand throws; in both cases the
\* unit may or may not have come up.
StartExec(p, up, throws) ==
    /\ proc[p].op = "start" /\ proc[p].bg = "exec"
    /\ up => unit[proc[p].srv]
    /\ active' = [active EXCEPT ![proc[p].srv] = @ \/ up]
    /\ proc' = [proc EXCEPT ![p].bg = IF throws THEN "fail" ELSE "probe"]
    /\ UNCHANGED <<dbVars, dir, jar, unit, monVars, envs>>

\* startServerOnRemote: after the 5 s wait, `systemctl is-active || echo
\* "inactive"`; isRunning = (stdout = 'active').
StartProbe(p, throws) ==
    /\ proc[p].op = "start" /\ proc[p].bg = "probe"
    /\ proc' = [proc EXCEPT ![p].bg = IF throws THEN "fail" ELSE "commit",
                            ![p].run = ~throws /\ active[proc[p].srv]]
    /\ UNCHANGED <<dbVars, hostVars, monVars, envs>>

\* A startServerOnRemote that forgets the lastStartedAt stamp.
StartCommitRow_NoStamp(row, isRunning) ==
    [row EXCEPT !.status = IF isRunning THEN "RUNNING" ELSE "STOPPED"]

\* The data of startServerOnRemote's update.
StartCommitRow(row, isRunning) ==
    [row EXCEPT !.status = IF isRunning THEN "RUNNING" ELSE "STOPPED",
                !.lastStartedAt = IF isRunning THEN TRUE ELSE @]

\* startServerOnRemote: the update of the outcome.
StartCommit(p) ==
    /\ proc[p].op = "start" /\ proc[p].bg = "commit"
    /\ IF db[proc[p].srv].exists
       THEN /\ Update(proc[p].srv,
                      StartCommitRow(db[proc[p].srv], proc[p].run),
                      <<"bg", p>>)
            /\ proc' = [proc EXCEPT ![p].bg = "done"]
       ELSE /\ proc' = [proc EXCEPT ![p].bg = "fail"]
            /\ UNCHANGED <<db, writer>>
    /\ UNCHANGED <<plan, hostVars, monVars, envs>>

\* A catch block that only logs.
BgFail_LogOnly(p) ==
    /\ proc[p].op \in {"create", "start", "stop"} /\ proc[p].bg = "fail"
    /\ proc' = [proc EXCEPT ![p].bg = "done"]
    /\ UNCHANGED <<dbVars, hostVars, monVars, envs>>

\* The catch block of setupServerOnRemote / startServerOnRemote /
\* stopServerOnRemote: update to ERROR (which throws again, to the caller's
\* .catch, if the row is gone).
BgFail(p) ==
    /\ proc[p].op \in {"create", "start", "stop"} /\ proc[p].bg = "fail"
    /\ IF db[proc[p].srv].exists
       THEN Update(proc[p].srv, [db[proc[p].srv] EXCEPT !.status = "ERROR"],
                   <<"bg", p>>)
       ELSE UNCHANGED <<db, writer>>
    /\ proc' = [proc EXCEPT ![p].bg = "done"]
    /\ UNCHANGED <<plan, hostVars, monVars, envs>>

\* stop: findFirst({id, userId}) and the two status checks.
StopRead(p, u, s) ==
    /\ Arrives(p)
    /\ LET row == db[s]
           found == row.exists /\ row.userId = u
           me == [IdleProc EXCEPT !.op = "stop", !.usr = u, !.srv = s]
       IN proc' = [proc EXCEPT ![p] =
            IF ~found
            THEN [me EXCEPT !.pc = "done", !.resp = "NotFound"]
            ELSE IF row.status \in {"STOPPED", "STOPPING"}
            THEN [me EXCEPT !.pc = "done", !.resp = "Conflict"]
            ELSE [me EXCEPT !.pc = "flip"]]
    /\ UNCHANGED <<dbVars, hostVars, monVars, envs>>

\* stop: update to STOPPING, then stopServerOnRemote runs to its first await.
StopFlip(p) ==
    /\ proc[p].op = "stop" /\ proc[p].pc = "flip"
    /\ IF db[proc[p].srv].exists
       THEN /\ Update(proc[p].srv,
                      [db[proc[p].srv] EXCEPT !.status = "STOPPING"],
                      <<"req", p>>)
            /\ proc' = [proc EXCEPT ![p].pc = "reread", ![p].bg = "read"]
       ELSE /\ proc' = [proc EXCEPT ![p].pc = "done", ![p].resp = "Error"]
            /\ UNCHANGED <<db, writer>>
    /\ UNCHANGED <<plan, hostVars, monVars, envs>>

\* stopServerOnRemote: `sudo systemctl stop`.  The command returns (its exit
\* status is not looked at; a failed stop leaves the unit as it was) or
\* executeCommand throws.
StopExec(p, down, throws) ==
    /\ proc[p].op = "stop" /\ proc[p].bg = "exec"
    /\ active' = [active EXCEPT ![proc[p].srv] = @ /\ ~down]
    /\ proc' = [proc EXCEPT ![p].bg = IF throws THEN "fail" ELSE "commit"]
    /\ UNCHANGED <<dbVars, dir, jar, unit, monVars, envs>>

\* The data of stopServerOnRemote's update.
StopCommitRow(row) ==
    [row EXCEPT !.status = "STOPPED", !.lastStoppedAt = TRUE,
                !.currentPlayers = FALSE]

\* stopServerOnRemote: the update that follows the stop command at once.
StopCommit(p) ==
    /\ proc[p].op = "stop" /\ proc[p].bg = "commit"
    /\ IF db[proc[p].srv].exists
       THEN /\ Update(proc[p].srv, StopCommitRow(db[proc[p].srv]),
                      <<"bg", p>>)
            /\ proc' = [proc EXCEPT ![p].bg = "done"]
       ELSE /\ proc' = [proc EXCEPT ![p].bg = "fail"]
            /\ UNCHANGED <<db, writer>>
    /\ UNCHANGED <<plan, hostVars, monVars, envs>>

\* ------------------------------------------- ServersService.create / remove

\* user.instance: an account has one host.
InstanceOf(u) == u

\* The rows of the servers on a host.
ServersOnInstance(i) ==
    {s \in Servers : db[s].exists /\ InstanceOf(db[s].userId) = i}

\* The ports of the further servers of a host: they were created first and
\* hold the lowest ports of both ranges.
OtherRows(i) ==
    {[gamePort |-> GAME_PORT_START + k, rconPort |-> RCON_PORT_START + k] :
        k \in 0..others[i] - 1}

\* A scan that answers the port after the highest one in use.
FindNextAvailablePort_AfterLast(usedPorts, startPort, endPort) ==
    LET inRange == usedPorts \cap (startPort..endPort)
        last == IF inRange = {} THEN startPort - 1
                ELSE CHOOSE q \in inRange : \A o \in inRange : o <= q
    IN IF last + 1 <= endPort THEN last + 1 ELSE 0

\* The loop of findNextAvailablePort from `port` on; 0 stands for null.
RECURSIVE ScanFrom(_, _, _)
ScanFrom(usedPorts, port, endPort) ==
    IF port > endPort THEN 0
    ELSE IF port \notin usedPorts THEN port
    ELSE ScanFrom(usedPorts, port + 1, endPort)

\* PortAllocationService.findNextAvailablePort; 0 stands for null.
FindNextAvailablePort(usedPorts, startPort, endPort) ==
    ScanFrom(usedPorts, startPort, endPort)

\* PortAllocationService.allocatePorts on the rows findMany returned: the
\* two scans, each followed by its ConflictException when it found nothing.
PortAllocation(serversOnInstance) ==
    LET gamePort ==
            FindNextAvailablePort({r.gamePort : r \in serversOnInstance},
                                  GAME_PORT_START, GAME_PORT_END)
        rconPort ==
            FindNextAvailablePort({r.rconPort : r \in serversOnInstance},
                                  RCON_PORT_START, RCON_PORT_END)
    IN IF gamePort = 0
       THEN [gamePort |-> 0, rconPort |-> 0, err |-> "NoGamePorts"]
       ELSE IF rconPort = 0
       THEN [gamePort |-> 0, rconPort |-> 0, err |-> "NoRconPorts"]
       ELSE [gamePort |-> gamePort, rconPort |-> rconPort, err |-> "none"]

\* A table without the unique indexes.
UniqueViolation_NoIndex(i, g, r) == FALSE

\* The unique indexes of the table on (instanceId, gamePort) and on
\* (instanceId, rconPort): would a row of host i with these ports be refused?
UniqueViolation(i, g, r) ==
    \/ \E t \in ServersOnInstance(i) : db[t].gamePort = g \/ db[t].rconPort = r
    \/ \E o \in OtherRows(i) : o.gamePort = g \/ o.rconPort = r

\* An id no row ever had (the table generates a new id for every row).
Fresh(s) == writer[s][1] = "none"

NextId == IF Fresh("s1") THEN "s1" ELSE "s2"

\* The remote steps of setupServerOnRemote for a downloaded server.jar.
SetupSteps == <<"mkdir", "resolve", "download", "verify", "chmod",
                "setenforce", "eula", "properties", "forgecheck", "unit",
                "reload">>

\* The remote commands of deleteServerOnRemote.
CleanupSteps == <<"disable", "rmunit", "reload", "rmdir">>

\* Commands written `... || true` or `... || echo ...` always exit 0.
AlwaysZero == {"setenforce", "forgecheck", "disable"}

\* Commands that can only succeed inside an existing server directory.
NeedsDir == {"download", "chmod", "eula", "properties"}

\* create, up to the end of enforceCreateServerLimit and of the lookup of
\* the user's host.
CreateLimit(p, u) ==
    /\ Arrives(p)
    /\ proc' = [proc EXCEPT ![p] =
          IF CanCreateMore(u)
          THEN [IdleProc EXCEPT !.op = "create", !.usr = u, !.pc = "alloc"]
          ELSE [IdleProc EXCEPT !.op = "create", !.usr = u, !.pc = "done",
                                !.resp = "Forbidden"]]
    /\ UNCHANGED <<dbVars, hostVars, monVars, envs>>

\* create: allocatePorts, the findMany of the host's rows and the two scans.
AllocatePorts(p) ==
    /\ proc[p].op = "create" /\ proc[p].pc = "alloc"
    /\ LET on == ServersOnInstance(InstanceOf(proc[p].usr))
           got == PortAllocation(
                      {[gamePort |-> db[s].gamePort,
                        rconPort |-> db[s].rconPort] : s \in on}
                      \cup OtherRows(InstanceOf(proc[p].usr)))
       IN proc' = [proc EXCEPT ![p] =
            IF got.err # "none"
            THEN [@ EXCEPT !.pc = "done", !.resp = "Conflict"]
            ELSE [@ EXCEPT !.pc = "insert", !.gamePort = got.gamePort,
                           !.rconPort = got.rconPort]]
    /\ UNCHANGED <<dbVars, hostVars, monVars, envs>>

\* create: prisma.minecraftServer.create; then setupServerOnRemote runs to
\* its first await and the row is returned.
CreateInsert(p) ==
    /\ proc[p].op = "create" /\ proc[p].pc = "insert"
    /\ Fresh(NextId)
    /\ IF UniqueViolation(InstanceOf(proc[p].usr), proc[p].gamePort,
                          proc[p].rconPort)
       THEN /\ proc' = [proc EXCEPT ![p].pc = "done", ![p].resp = "Error"]
            /\ UNCHANGED <<db, writer>>
       ELSE /\ Update(NextId, NewRow(proc[p].usr, proc[p].gamePort,
                                     proc[p].rconPort), <<"req", p>>)
            /\ proc' = [proc EXCEPT ![p].pc = "done", ![p].srv = NextId,
                                    ![p].resp = "STOPPED", ![p].bg = "read"]
    /\ UNCHANGED <<plan, hostVars, monVars, envs>>

\* The position of a background phase after a command: the catch block,
\* the next command, or the end.
AfterStep(p, steps, out) ==
    IF out = "throws" THEN [proc[p] EXCEPT !.bg = "fail", !.bad = TRUE]
    ELSE [proc[p] EXCEPT
            !.bg = IF proc[p].step = Len(steps) THEN "done" ELSE "exec",
            !.step = @ + 1,
            !.bad = @ \/ out # "ok"]

\* setupServerOnRemote: one remote step other than the verification.  It
\* returns with exit status 0 ("ok") or not ("nonzero", which is not looked
\* at), or it throws (SSH failure, timeout, unsupported version).
SetupExec(p, out) ==
    /\ proc[p].op = "create" /\ proc[p].bg = "exec"
    /\ LET s == proc[p].srv
           cmd == SetupSteps[proc[p].step]
       IN /\ cmd # "verify"
          /\ out = "nonzero" => cmd \notin AlwaysZero \cup {"resolve"}
          /\ out = "ok" => (cmd \in NeedsDir => dir[s])
          /\ dir' = [dir EXCEPT ![s] = @ \/ (cmd = "mkdir" /\ out = "ok")]
          /\ jar' = [jar EXCEPT ![s] =
                IF cmd = "download" /\ out = "ok" THEN "full"
                ELSE IF cmd = "download" /\ dir[s] /\ @ = "none" THEN "empty"
                ELSE @]
          /\ unit' = [unit EXCEPT ![s] = @ \/ (cmd = "unit" /\ out = "ok")]
          /\ proc' = [proc EXCEPT ![p] = AfterStep(p, SetupSteps, out)]
    /\ UNCHANGED <<dbVars, active, monVars, envs>>

\* setupServerOnRemote: `ls -lh server.jar && stat -c%s server.jar`; a file
\* size of 0 (or no output at all) is thrown as an error.
SetupVerify(p, throws) ==
    /\ proc[p].op = "create" /\ proc[p].bg = "exec"
    /\ SetupSteps[proc[p].step] = "verify"
    /\ proc' = [proc EXCEPT ![p] =
          AfterStep(p, SetupSteps,
                    IF throws \/ jar[proc[p].srv] # "full"
                    THEN "throws" ELSE "ok")]
    /\ UNCHANGED <<dbVars, hostVars, monVars, envs>>

\* remove: findFirst({id, userId}) and the RUNNING check; then
\* deleteServerOnRemote runs to its first await.
RemoveRead(p, u, s) ==
    /\ Arrives(p)
    /\ LET row == db[s]
           found == row.exists /\ row.userId = u
           me == [IdleProc EXCEPT !.op = "remove", !.usr = u, !.srv = s]
       IN proc' = [proc EXCEPT ![p] =
            IF ~found
            THEN [me EXCEPT !.pc = "done", !.resp = "NotFound"]
            ELSE IF row.status = "RUNNING"
            THEN [me EXCEPT !.pc = "done", !.resp = "Conflict"]
            ELSE [me EXCEPT !.pc = "delete", !.bg = "read"]]
    /\ UNCHANGED <<dbVars, hostVars, monVars, envs>>

\* remove: prisma.minecraftServer.delete.
RemoveDelete(p) ==
    /\ proc[p].op = "remove" /\ proc[p].pc = "delete"
    /\ IF db[proc[p].srv].exists
       THEN /\ Update(proc[p].srv, NoRow, <<"req", p>>)
            /\ proc' = [proc EXCEPT ![p].pc = "done", ![p].resp = "deleted"]
       ELSE /\ proc' = [proc EXCEPT ![p].pc = "done", ![p].resp = "Error"]
            /\ UNCHANGED <<db, writer>>
    /\ UNCHANGED <<plan, hostVars, monVars, envs>>

\* deleteServerOnRemote: one cleanup command.  A throw is caught and logged,
\* which ends the cleanup.
DeleteExec(p, out) ==
    /\ proc[p].op = "remove" /\ proc[p].bg = "exec"
    /\ LET s == proc[p].srv
           cmd == CleanupSteps[proc[p].step]
       IN /\ out = "nonzero" => cmd \notin AlwaysZero
          /\ unit' = [unit EXCEPT ![s] = @ /\ ~(cmd = "rmunit" /\ out = "ok")]
          /\ dir' = [dir EXCEPT ![s] = @ /\ ~(cmd = "rmdir" /\ out = "ok")]
          /\ jar' = [jar EXCEPT ![s] =
                IF cmd = "rmdir" /\ out = "ok" THEN "none" ELSE @]
          /\ proc' = [proc EXCEPT ![p] =
                IF out = "throws"
                THEN [@ EXCEPT !.bg = "done", !.bad = TRUE]
                ELSE AfterStep(p, CleanupSteps, out)]
    /\ UNCHANGED <<dbVars, active, monVars, envs>>

\* ---------------------------------------------------- ServerMonitorService

\* A status decision that does not adopt a unit started on the host itself.
NewStatus_TrustRecord(snap, isRunning) ==
    IF isRunning /\ snap # "STOPPED" THEN "RUNNING"
    ELSE IF snap = "STARTING" THEN "STARTING"
    ELSE "STOPPED"

\* A decision without the grace for a server that is still starting.
NewStatus_NoGrace(snap, isRunning) ==
    IF isRunning THEN "RUNNING" ELSE "STOPPED"

\* checkServerStatus: the status decision.
NewStatus(snap, isRunning) ==
    IF isRunning THEN "RUNNING"
    ELSE IF snap = "STARTING" THEN "STARTING"
    ELSE "STOPPED"

\* An updateData that forgets lastStartedAt.
MonitorRow_NoStartStamp(row, snap, newStatus) ==
    [row EXCEPT
       !.status = newStatus,
       !.lastStoppedAt =
           IF newStatus = "STOPPED" /\ snap # "STOPPED" THEN TRUE ELSE @,
       !.currentPlayers =
           IF newStatus = "STOPPED" /\ snap # "STOPPED" THEN FALSE ELSE @]

\* An updateData that forgets lastStoppedAt and the player count.
MonitorRow_NoStopStamp(row, snap, newStatus) ==
    [row EXCEPT
       !.status = newStatus,
       !.lastStartedAt =
           IF newStatus = "RUNNING" /\ snap = "STOPPED" THEN TRUE ELSE @]

\* checkServerStatus: updateData applied to the row.
MonitorRow(row, snap, newStatus) ==
    [row EXCEPT
       !.status = newStatus,
       !.lastStartedAt =
           IF newStatus = "RUNNING" /\ snap = "STOPPED" THEN TRUE ELSE @,
       !.lastStoppedAt =
           IF newStatus = "STOPPED" /\ snap # "STOPPED" THEN TRUE ELSE @,
       !.currentPlayers =
           IF newStatus = "STOPPED" /\ snap # "STOPPED" THEN FALSE ELSE @]

\* monitorAllServers: findMany of the rows not in ERROR, then
\* checkServerStatus of each row, each up to its executeCommand.  The cron
\* job runs at most maxTicks times.
MonitorAllServers(maxTicks) ==
    /\ ticks < maxTicks
    /\ \A s \in Servers : chk[s].pc = "idle"
    /\ ticks' = ticks + 1
    /\ chk' = [s \in Servers |->
                 IF db[s].exists /\ db[s].status # "ERROR"
                 THEN [pc |-> "probe", snap |-> db[s].status, run |-> FALSE]
                 ELSE IdleChk]
    /\ UNCHANGED <<dbVars, hostVars, proc, envs>>

\* A sweep that gives up every check as soon as one of them throws.
CheckProbe_FailFast(s, throws) ==
    /\ chk[s].pc = "probe"
    /\ chk' = IF throws
              THEN [t \in Servers |-> IdleChk]
              ELSE [chk EXCEPT ![s] =
                      IF NewStatus(chk[s].snap, active[s]) = chk[s].snap
                      THEN IdleChk
                      ELSE [pc |-> "commit", snap |-> chk[s].snap,
                            run |-> active[s]]]
    /\ UNCHANGED <<dbVars, hostVars, proc, ticks, envs>>

\* A check that performs its update even when the status has not changed.
CheckProbe_AlwaysWrite(s, throws) ==
    /\ chk[s].pc = "probe"
    /\ chk' = [chk EXCEPT ![s] =
          IF throws
          THEN IdleChk
          ELSE [pc |-> "commit", snap |-> chk[s].snap, run |-> active[s]]]
    /\ UNCHANGED <<dbVars, hostVars, proc, ticks, envs>>

\* checkServerStatus: the is-active probe returns, or executeCommand throws
\* (caught and logged).  Nothing is written when the status is unchanged.
CheckProbe(s, throws) ==
    /\ chk[s].pc = "probe"
    /\ chk' = [chk EXCEPT ![s] =
          IF throws \/ NewStatus(chk[s].snap, active[s]) = chk[s].snap
          THEN IdleChk
          ELSE [pc |-> "commit", snap |-> chk[s].snap, run |-> active[s]]]
    /\ UNCHANGED <<dbVars, hostVars, proc, ticks, envs>>

\* checkServerStatus: the update (a throw of it is caught and logged).
CheckCommit(s) ==
    /\ chk[s].pc = "commit"
    /\ IF db[s].exists
       THEN Update(s, MonitorRow(db[s], chk[s].snap,
                                 NewStatus(chk[s].snap, chk[s].run)),
                   <<"monitor", 0>>)
       ELSE UNCHANGED <<db, writer>>
    /\ chk' = [chk EXCEPT ![s] = IdleChk]
    /\ UNCHANGED <<plan, hostVars, proc, ticks, envs>>

\* checkServerStatus: the update throws (the database refuses it); the
\* catch block logs the error and the check ends.
CheckCommitFail(s) ==
    /\ chk[s].pc = "commit"
    /\ chk' = [chk EXCEPT ![s] = IdleChk]
    /\ UNCHANGED <<dbVars, hostVars, proc, ticks, envs>>

\* Somebody on the host starts an installed unit by hand, or the server
\* process dies.
EnvToggle(s) ==
    /\ envs < MaxEnv
    /\ unit[s]
    /\ envs' = envs + 1
    /\ active' = [active EXCEPT ![s] = ~@]
    /\ UNCHANGED <<dbVars, dir, jar, unit, proc, monVars>>

\* ------------------------------------------------------------ specifications

\* The host of an account, registered, with no removal asked for.
IdleInst == [exists |-> TRUE, pc |-> "idle", resp |-> "none", calls |-> 0]

\* allocatePorts is not being looked at.
NoAlloc == [pc |-> "none", rows |-> {}, gamePort |-> 0, rconPort |-> 0,
            err |-> "none"]

\* No sweep of the monitor has started.
NoSweep == [on |-> FALSE, proc |-> [p \in Procs |-> IdleProc], envs |-> 0,
            clean |-> FALSE, again |-> FALSE]

InitQuiet ==
    /\ proc = [p \in Procs |-> IdleProc]
    /\ chk = [s \in Servers |-> IdleChk]
    /\ writer = [s \in Servers |-> <<"none", 0>>]
    /\ ticks = 0
    /\ envs = 0
    /\ sweep = NoSweep
    /\ directoryCache = [k \in CacheKeys |-> NoEntry]
    /\ ls = NoListing
    /\ upload = NoUpload
    /\ remote = NoRemote
    /\ setup = NoSetup
    /\ rcon = [s \in Servers |-> "idle"]

\* Nothing pooled, no server, no request: all but `fm` and `vault`.
InitBare ==
    /\ InitPool /\ InitQuiet
    /\ plan = [u \in Users |-> "FREE"]
    /\ db = [s \in Servers |-> NoRow]
    /\ active = [s \in Servers |-> FALSE]
    /\ dir = [s \in Servers |-> FALSE]
    /\ jar = [s \in Servers |-> "none"]
    /\ unit = [s \in Servers |-> FALSE]
    /\ alloc = NoAlloc
    /\ others = [u \in Users |-> 0]
    /\ inst = [u \in Users |-> IdleInst]

InitIdle == InitQuiet /\ fm = NoFile /\ vault = NoVault

\* No account has a server.
InitEmpty ==
    /\ InitIdle
    /\ plan \in [Users -> Plans]
    /\ db = [s \in Servers |-> NoRow]
    /\ active = [s \in Servers |-> FALSE]
    /\ dir = [s \in Servers |-> FALSE]
    /\ jar = [s \in Servers |-> "none"]
    /\ unit = [s \in Servers |-> FALSE]

\* Account u1, on the FREE or the PRO plan, has two provisioned servers,
\* both stopped.
InitLife ==
    /\ InitIdle
    /\ plan \in {pl \in [Users -> Plans] :
                   pl["u1"] \in {"FREE", "PRO"} /\ pl["u2"] = "FREE"}
    /\ db = [s \in Servers |->
               NewRow("u1", IF s = "s1" THEN GAME_PORT_START
                                        ELSE GAME_PORT_START + 1,
                            IF s = "s1" THEN RCON_PORT_START
                                        ELSE RCON_PORT_START + 1)]
    /\ active = [s \in Servers |-> FALSE]
    /\ dir = [s \in Servers |-> TRUE]
    /\ jar = [s \in Servers |-> "full"]
    /\ unit = [s \in Servers |-> TRUE]

\* An empty pool and the two provisioned servers.
InitLifecycle ==
    /\ InitPool /\ InitLife /\ alloc = NoAlloc
    /\ others = [u \in Users |-> 0]
    /\ inst = [u \in Users |-> IdleInst]

InitProv ==
    /\ InitPool /\ InitEmpty /\ plan = [u \in Users |-> "FREE"]
    /\ alloc = NoAlloc
    /\ others = [u \in Users |-> 0]
    /\ inst = [u \in Users |-> IdleInst]

SpecPool == InitProv /\ [][NextPool]_vars

NextLife ==
    \/ \E p \in Procs, u \in Users, s \in Servers :
          StartLimit(p, u, s) /\ UNCHANGED restVars
    \/ \E p \in Procs :
          StartRead(p) /\ UNCHANGED restVars
    \/ \E p \in Procs :
          StartFlip(p) /\ UNCHANGED restVars
    \/ \E p \in Procs :
          Respond(p) /\ UNCHANGED restVars
    \/ \E p \in Procs :
          BgRead(p) /\ UNCHANGED restVars
    \/ \E p \in Procs, up \in BOOLEAN, throws \in BOOLEAN :
          StartExec(p, up, throws) /\ UNCHANGED restVars
    \/ \E p \in Procs, throws \in BOOLEAN :
          StartProbe(p, throws) /\ UNCHANGED restVars
    \/ \E p \in Procs :
          StartCommit(p) /\ UNCHANGED restVars
    \/ \E p \in Procs :
          BgFail(p) /\ UNCHANGED restVars
    \/ \E p \in Procs, u \in Users, s \in Servers :
          StopRead(p, u, s) /\ UNCHANGED restVars
    \/ \E p \in Procs :
          StopFlip(p) /\ UNCHANGED restVars
    \/ \E p \in Procs, down \in BOOLEAN, throws \in BOOLEAN :
          StopExec(p, down, throws) /\ UNCHANGED restVars
    \/ \E p \in Procs :
          StopCommit(p) /\ UNCHANGED restVars
    \/ MonitorAllServers(MaxTicks) /\ UNCHANGED restVars
    \/ \E s \in Servers, throws \in BOOLEAN :
          CheckProbe(s, throws) /\ UNCHANGED restVars
    \/ \E s \in Servers :
          CheckCommit(s) /\ UNCHANGED restVars
    \/ \E s \in Servers :
          EnvToggle(s) /\ UNCHANGED restVars

SpecLife == InitLifecycle /\ [][NextLife]_vars

\* A continuation of the background phase of request p: the event loop runs
\* it once the awaited query or command has settled (a remote command
\* returns or times out, see executeCommand).
BgStep(p) ==
    \/ BgRead(p)
    \/ \E up \in BOOLEAN, throws \in BOOLEAN : StartExec(p, up, throws)
    \/ \E throws \in BOOLEAN : StartProbe(p, throws)
    \/ StartCommit(p)
    \/ \E down \in BOOLEAN, throws \in BOOLEAN : StopExec(p, down, throws)
    \/ StopCommit(p)
    \/ BgFail(p)

\* The two provisioned servers of a PRO account, nobody touching the host.
InitAsync ==
    /\ InitLifecycle
    /\ plan["u1"] = "PRO"

\* The requests, their background phases and the monitor; the units change
\* state only through the commands of the program.
NextAsync ==
    \/ \E p \in Procs, u \in Users, s \in Servers :
          StartLimit(p, u, s) /\ UNCHANGED restVars
    \/ \E p \in Procs :
          StartRead(p) /\ UNCHANGED restVars
    \/ \E p \in Procs :
          StartFlip(p) /\ UNCHANGED restVars
    \/ \E p \in Procs :
          Respond(p) /\ UNCHANGED restVars
    \/ \E p \in Procs, u \in Users, s \in Servers :
          StopRead(p, u, s) /\ UNCHANGED restVars
    \/ \E p \in Procs :
          StopFlip(p) /\ UNCHANGED restVars
    \/ \E p \in Procs :
          BgStep(p) /\ UNCHANGED restVars
    \/ MonitorAllServers(MaxTicks) /\ UNCHANGED restVars
    \/ \E s \in Servers, throws \in BOOLEAN :
          CheckProbe(s, throws) /\ UNCHANGED restVars
    \/ \E s \in Servers :
          CheckCommit(s) /\ UNCHANGED restVars

\* Every pending background continuation is eventually run.
SpecAsync ==
    /\ InitAsync
    /\ [][NextAsync]_vars
    /\ \A p \in Procs : WF_vars(BgStep(p) /\ UNCHANGED restVars)

\* ---- the monitor with the history of its sweeps

\* No request has a handler or a background phase under way.
Calm(pr) ==
    \A p \in Procs : pr[p].pc \in {"idle", "done"} /\ pr[p].bg \in {"none", "done"}

\* Since the last sweep started: no probe or update of it has failed, no
\* request has arrived or moved, and nobody has touched a unit on the host.
Undisturbed ==
    /\ sweep.on /\ sweep.clean
    /\ proc = sweep.proc
    /\ envs = sweep.envs

\* Every check of the last sweep has ended.
SweepOver == sweep.on /\ \A s \in Servers : chk[s].pc = "idle"

\* monitorAllServers, remembering what it started from.
SweepStart ==
    /\ MonitorAllServers(MaxSweeps)
    /\ sweep' = [on |-> TRUE, proc |-> proc, envs |-> envs, clean |-> TRUE,
                 again |-> Undisturbed]

SweepProbe(s, throws) ==
    /\ CheckProbe(s, throws)
    /\ sweep' = [sweep EXCEPT !.clean = @ /\ ~throws]

SweepCommit(s) ==
    /\ CheckCommit(s)
    /\ UNCHANGED sweep

SweepCommitFail(s) ==
    /\ CheckCommitFail(s)
    /\ sweep' = [sweep EXCEPT !.clean = FALSE]

\* Account u1 (PRO) has two provisioned servers: s1 was started, is running
\* and has reported players; s2 is stopped.
InitMon ==
    /\ InitPool
    /\ InitIdle
    /\ alloc = NoAlloc
    /\ others = [u \in Users |-> 0]
    /\ inst = [u \in Users |-> IdleInst]
    /\ plan = [u \in Users |-> IF u = "u1" THEN "PRO" ELSE "FREE"]
    /\ db = [s \in Servers |->
               IF s = "s1"
               THEN [NewRow("u1", GAME_PORT_START, RCON_PORT_START)
                       EXCEPT !.status = "RUNNING", !.lastStartedAt = TRUE,
                              !.currentPlayers = TRUE]
               ELSE NewRow("u1", GAME_PORT_START + 1, RCON_PORT_START + 1)]
    /\ active = [s \in Servers |-> s = "s1"]
    /\ dir = [s \in Servers |-> TRUE]
    /\ jar = [s \in Servers |-> "full"]
    /\ unit = [s \in Servers |-> TRUE]

NextMon ==
    \/ \E p \in 1..MaxSweepRequests, u \in Users, s \in Servers :
          StartLimit(p, u, s) /\ UNCHANGED restVars
    \/ \E p \in Procs :
          StartRead(p) /\ UNCHANGED restVars
    \/ \E p \in Procs :
          StartFlip(p) /\ UNCHANGED restVars
    \/ \E p \in Procs :
          Respond(p) /\ UNCHANGED restVars
    \/ \E p \in 1..MaxSweepRequests, u \in Users, s \in Servers :
          StopRead(p, u, s) /\ UNCHANGED restVars
    \/ \E p \in Procs :
          StopFlip(p) /\ UNCHANGED restVars
    \/ \E p \in Procs :
          BgStep(p) /\ UNCHANGED restVars
    \/ \E s \in Servers :
          EnvToggle(s) /\ UNCHANGED restVars
    \/ SweepStart /\ UNCHANGED fixedVars
    \/ \E s \in Servers, throws \in BOOLEAN :
          SweepProbe(s, throws) /\ UNCHANGED fixedVars
    \/ \E s \in Servers :
          SweepCommit(s) /\ UNCHANGED fixedVars
    \/ \E s \in Servers :
          SweepCommitFail(s) /\ UNCHANGED fixedVars

SpecMon == InitMon /\ [][NextMon]_vars

SpecCache == InitProv /\ [][NextCache]_vars

SpecTypes == InitProv /\ [][NextTypes]_vars

SpecSetup == InitProv /\ [][NextSetup]_vars


\* Every pending continuation of a connection test is eventually run.
SpecInst ==
    /\ InitProv
    /\ [][NextInst]_vars
    /\ \A t \in Tests : WF_vars(TestStep(t) /\ UNCHANGED InstVars)

\* ---- allocatePorts alone

\* The number of ports of the game range (and of the console range).
Slots == GAME_PORT_END - GAME_PORT_START + 1

\* The ways the servers of a host are laid over a range: "dense" takes the
\* offsets 0, 1, 2, ...; "hole" h skips offset h.
Layouts == {[kind |-> "dense", h |-> 0]} \cup
           {[kind |-> "hole", h |-> h] : h \in 0..MaxHole}

OffsetOf(layout, i) ==
    IF layout.kind = "dense" \/ i < layout.h THEN i ELSE i + 1

\* The rows of a host with n servers, their game ports laid out one way and
\* their console ports another.
RowsOf(n, gameLayout, rconLayout) ==
    {[gamePort |-> GAME_PORT_START + OffsetOf(gameLayout, i),
      rconPort |-> RCON_PORT_START + OffsetOf(rconLayout, i)] :
        i \in 0..n - 1}

InitPorts ==
    /\ InitPool /\ InitEmpty /\ plan = [u \in Users |-> "FREE"]
    /\ others = [u \in Users |-> 0]
    /\ inst = [u \in Users |-> IdleInst]
    /\ \E n \in (0..MaxFew) \cup {Slots - 1, Slots},
          gameLayout \in Layouts, rconLayout \in Layouts :
          alloc = [NoAlloc EXCEPT !.pc = "call",
                                  !.rows = RowsOf(n, gameLayout, rconLayout)]

\* allocatePorts(instanceId) on the rows of the host.
AllocatePortsCall ==
    /\ alloc.pc = "call"
    /\ LET got == PortAllocation(alloc.rows)
       IN alloc' = [alloc EXCEPT !.pc = "done", !.gamePort = got.gamePort,
                                 !.rconPort = got.rconPort, !.err = got.err]
    /\ UNCHANGED <<dbVars, hostVars, monVars, proc, envs>>

NextPorts ==
    AllocatePortsCall /\ UNCHANGED <<poolVars, sweep, others, inst, fm, vault, moreVars>>

SpecPorts == InitPorts /\ [][NextPorts]_vars

\* ---- create and remove on accounts near the ceiling of their plan

\* Account u1, on any plan, owns one server less than, or as many servers
\* as, the ceiling of the FREE or of the PRO plan; none of them is running.
InitQuota ==
    /\ InitPool /\ InitEmpty
    /\ alloc = NoAlloc
    /\ plan["u2"] = "FREE"
    /\ \E n \in {MaxServersOf("FREE") - 1, MaxServersOf("FREE"),
                MaxServersOf("PRO") - 1, MaxServersOf("PRO")} :
          others = [u \in Users |-> IF u = "u1" THEN n ELSE 0]
    /\ inst = [u \in Users |-> IdleInst]

Outcomes == {"ok", "nonzero", "throws"}

NextProv ==
    \/ \E p \in Procs, u \in Users :
          CreateLimit(p, u) /\ UNCHANGED restVars
    \/ \E p \in Procs :
          AllocatePorts(p) /\ UNCHANGED restVars
    \/ \E p \in Procs :
          CreateInsert(p) /\ UNCHANGED restVars
    \/ \E p \in Procs :
          BgRead(p) /\ UNCHANGED restVars
    \/ \E p \in Procs, out \in Outcomes :
          SetupExec(p, out) /\ UNCHANGED restVars
    \/ \E p \in Procs, throws \in BOOLEAN :
          SetupVerify(p, throws) /\ UNCHANGED restVars
    \/ \E p \in Procs :
          BgFail(p) /\ UNCHANGED restVars
    \/ \E p \in Procs, u \in Users, s \in Servers :
          RemoveRead(p, u, s) /\ UNCHANGED restVars
    \/ \E p \in Procs :
          RemoveDelete(p) /\ UNCHANGED restVars
    \/ \E p \in Procs, out \in Outcomes :
          DeleteExec(p, out) /\ UNCHANGED restVars

SpecProv == InitProv /\ [][NextProv]_vars

SpecQuota == InitQuota /\ [][NextProv]_vars

\* A server is created and provisioned while starts are asked for.
NextEarly ==
    \/ \E p \in Procs, u \in Users :
          CreateLimit(p, u) /\ UNCHANGED restVars
    \/ \E p \in Procs :
          AllocatePorts(p) /\ UNCHANGED restVars
    \/ \E p \in Procs :
          CreateInsert(p) /\ UNCHANGED restVars
    \/ \E p \in Procs :
          BgRead(p) /\ UNCHANGED restVars
    \/ \E p \in Procs, out \in Outcomes :
          SetupExec(p, out) /\ UNCHANGED restVars
    \/ \E p \in Procs, throws \in BOOLEAN :
          SetupVerify(p, throws) /\ UNCHANGED restVars
    \/ \E p \in Procs :
          BgFail(p) /\ UNCHANGED restVars
    \/ \E p \in Procs, u \in Users, s \in Servers :
          StartLimit(p, u, s) /\ UNCHANGED restVars
    \/ \E p \in Procs :
          StartRead(p) /\ UNCHANGED restVars
    \/ \E p \in Procs :
          StartFlip(p) /\ UNCHANGED restVars
    \/ \E p \in Procs :
          Respond(p) /\ UNCHANGED restVars
    \/ \E p \in Procs, up \in BOOLEAN, throws \in BOOLEAN :
          StartExec(p, up, throws) /\ UNCHANGED restVars
    \/ \E p \in Procs, throws \in BOOLEAN :
          StartProbe(p, throws) /\ UNCHANGED restVars
    \/ \E p \in Procs :
          StartCommit(p) /\ UNCHANGED restVars

SpecEarly == InitProv /\ [][NextEarly]_vars

\* ---- InstancesService.update and the pool
CredsVars == <<plan, db, writer, active, dir, jar, unit, proc, chk, ticks,
               envs, sweep, alloc, others, inst, fm, vault, directoryCache,
               ls, upload, setup, rcon>>

\* A remote command for the host of the account: the caller reads the row,
\* passes its credentials to executeCommand, and getConnection runs to its
\* first await.  A client constructed here is connected with them.
RemoteCommand(r) ==
    /\ remote.row.status # "NONE"
    /\ GetConnection(r, "h1")
    /\ remote' = [remote EXCEPT
          !.asked[r] = remote.row.creds,
          !.built = IF call'[r].pc = "connect"
                    THEN [@ EXCEPT ![call'[r].cl] = remote.row.creds]
                    ELSE @]

\* The probe of the cached client failed: the client connected in its
\* place is connected with the credentials the caller passed.
ReplaceDead(r) ==
    /\ HealthFail(r)
    /\ remote' = [remote EXCEPT !.built[call'[r].cl] = remote.asked[r]]

NextCreds ==
    \/ InstanceCreate /\ UNCHANGED <<poolVars, CredsVars>>
    \/ \E changed \in BOOLEAN :
          InstanceUpdate(changed) /\ UNCHANGED <<poolVars, CredsVars>>
    \/ \E r \in Callers : RemoteCommand(r) /\ UNCHANGED CredsVars
    \/ \E r \in Callers : HealthOk(r) /\ UNCHANGED <<CredsVars, remote>>
    \/ \E r \in Callers : ReplaceDead(r) /\ UNCHANGED CredsVars
    \/ \E r \in Callers : ConnectReady(r) /\ UNCHANGED <<CredsVars, remote>>
    \/ \E r \in Callers : ConnectFail(r) /\ UNCHANGED <<CredsVars, remote>>
    \/ \E r \in Callers : Finish(r) /\ UNCHANGED <<CredsVars, remote>>
    \/ \E dt \in {CONNECTION_TIMEOUT - 1, CONNECTION_TIMEOUT} :
          Advance(dt) /\ UNCHANGED <<CredsVars, remote>>

SpecCreds == InitProv /\ [][NextCreds]_vars

\* ---- RconService.getPlayers
RconVars == <<connections, lastUsed, clientState, clientHost, now, advances,
              call, sweep, alloc, others, inst, fm, vault, directoryCache, ls,
              upload, remote, setup>>

\* getPlayers: executeCommand reads the row and refuses a server that is
\* not RUNNING; else the RCON exchange is under way.
PlayersRead(s) ==
    /\ rcon[s] = "idle"
    /\ db[s].exists /\ db[s].status = "RUNNING"
    /\ rcon' = [rcon EXCEPT ![s] = "list"]
    /\ UNCHANGED <<dbVars, hostVars, proc, monVars, envs>>

\* getPlayers: the answer of `list` is parsed and currentPlayers updated,
\* by id; or the exchange failed, or its answer did not parse.
PlayersWrite(s, answered) ==
    /\ rcon[s] = "list"
    /\ rcon' = [rcon EXCEPT ![s] = "idle"]
    /\ IF answered /\ db[s].exists
       THEN Update(s, [db[s] EXCEPT !.currentPlayers = TRUE], <<"rcon", 0>>)
       ELSE UNCHANGED <<db, writer>>
    /\ UNCHANGED <<plan, hostVars, proc, monVars, envs>>

NextRcon ==
    \/ \E s \in Servers : PlayersRead(s) /\ UNCHANGED RconVars
    \/ \E s \in Servers, answered \in BOOLEAN :
          PlayersWrite(s, answered) /\ UNCHANGED RconVars
    \/ \E p \in Procs, u \in Users, s \in Servers :
          StopRead(p, u, s) /\ UNCHANGED restVars
    \/ \E p \in Procs :
          StopFlip(p) /\ UNCHANGED restVars
    \/ \E p \in Procs :
          Respond(p) /\ UNCHANGED restVars
    \/ \E p \in Procs :
          BgRead(p) /\ UNCHANGED restVars
    \/ \E p \in Procs, down \in BOOLEAN, throws \in BOOLEAN :
          StopExec(p, down, throws) /\ UNCHANGED restVars
    \/ \E p \in Procs :
          StopCommit(p) /\ UNCHANGED restVars
    \/ \E p \in Procs :
          BgFail(p) /\ UNCHANGED restVars
    \/ MonitorAllServers(MaxTicks) /\ UNCHANGED restVars
    \/ \E s \in Servers, throws \in BOOLEAN :
          CheckProbe(s, throws) /\ UNCHANGED restVars
    \/ \E s \in Servers :
          CheckCommit(s) /\ UNCHANGED restVars
    \/ \E s \in Servers :
          EnvToggle(s) /\ UNCHANGED restVars

SpecRcon == InitMon /\ [][NextRcon]_vars

\* ------------------------------------------------- InstancesService.remove

\* instance.id of the host of an account, the key of its pooled connection.
HostOf(u) == IF u = "u1" THEN "h1" ELSE "h2"

\* instance.servers of the findUnique in InstancesService.remove
HasServers(u) == ServersOnInstance(InstanceOf(u)) # {} \/ others[u] > 0

\* sshService.closeConnection(instance.id): ends and forgets the pooled
\* connection of the host, if there is one.
CloseIfPooled(h) ==
    IF connections[h] # NoClient
    THEN CloseConnection(h)
    ELSE UNCHANGED poolVars

\* A remove that closes the pooled connection before looking at the servers.
InstanceRemoveRead_CloseFirst(u, hasKey) ==
    /\ inst[u].pc \in {"idle", "done"}
    /\ inst[u].calls < MaxHostRemovals
    /\ LET me == [inst[u] EXCEPT !.calls = @ + 1, !.resp = "none"]
       IN /\ inst' = [inst EXCEPT ![u] =
                IF ~inst[u].exists
                THEN [me EXCEPT !.pc = "done", !.resp = "NotFound"]
                ELSE IF HasServers(u)
                THEN [me EXCEPT !.pc = "done", !.resp = "Conflict"]
                ELSE [me EXCEPT !.pc = IF hasKey THEN "key" ELSE "delete"]]
          /\ IF inst[u].exists /\ (HasServers(u) \/ ~hasKey)
             THEN CloseIfPooled(HostOf(u))
             ELSE UNCHANGED poolVars
    /\ UNCHANGED <<dbVars, hostVars, monVars, proc, envs, sweep, alloc, others,
                   fm, vault, moreVars>>

\* InstancesService.remove: findUnique with the servers of the host, the
\* NotFound and Conflict checks; then either the deletion of the key file
\* is awaited (hasKey: instance.sshKeyPath is set), or the pooled
\* connection is closed and the delete query sent.
InstanceRemoveRead(u, hasKey) ==
    /\ inst[u].pc \in {"idle", "done"}
    /\ inst[u].calls < MaxHostRemovals
    /\ LET me == [inst[u] EXCEPT !.calls = @ + 1, !.resp = "none"]
       IN /\ inst' = [inst EXCEPT ![u] =
                IF ~inst[u].exists
                THEN [me EXCEPT !.pc = "done", !.resp = "NotFound"]
                ELSE IF HasServers(u)
                THEN [me EXCEPT !.pc = "done", !.resp = "Conflict"]
                ELSE [me EXCEPT !.pc = IF hasKey THEN "key" ELSE "delete"]]
          /\ IF inst[u].exists /\ ~HasServers(u) /\ ~hasKey
             THEN CloseIfPooled(HostOf(u))
             ELSE UNCHANGED poolVars
    /\ UNCHANGED <<dbVars, hostVars, monVars, proc, envs, sweep, alloc, others,
                   fm, vault, moreVars>>

\* InstancesService.remove: the key file is gone; the pooled connection is
\* closed and the delete query sent.
InstanceRemoveKey(u) ==
    /\ inst[u].pc = "key"
    /\ inst' = [inst EXCEPT ![u].pc = "delete"]
    /\ CloseIfPooled(HostOf(u))
    /\ UNCHANGED <<dbVars, hostVars, monVars, proc, envs, sweep, alloc, others,
                   fm, vault, moreVars>>

\* InstancesService.remove: prisma.remoteInstance.delete (which throws when
\* the row is gone already).
InstanceRemoveDelete(u) ==
    /\ inst[u].pc = "delete"
    /\ inst' = [inst EXCEPT ![u] =
          IF inst[u].exists
          THEN [@ EXCEPT !.pc = "done", !.resp = "deleted", !.exists = FALSE]
          ELSE [@ EXCEPT !.pc = "done", !.resp = "Error"]]
    /\ UNCHANGED <<poolVars, dbVars, hostVars, monVars, proc, envs, sweep,
                   alloc, others, fm, vault, moreVars>>

\* The client of the pooled connection of host h when the hosts of `pooled`
\* have one.
PooledClient(pooled, h) ==
    IF h \notin pooled THEN NoClient
    ELSE IF h = "h1" \/ "h1" \notin pooled THEN 1 ELSE 2

\* Account u1 has its two provisioned servers, account u2 has none; each
\* host may have an open pooled connection.
InitHost ==
    /\ InitLife
    /\ plan = [u \in Users |-> "FREE"]
    /\ alloc = NoAlloc
    /\ others = [u \in Users |-> 0]
    /\ inst = [u \in Users |-> IdleInst]
    /\ \E pooled \in SUBSET Hosts :
          /\ connections = [h \in Hosts |-> PooledClient(pooled, h)]
          /\ clientState = [c \in Clients |->
                IF \E h \in Hosts : PooledClient(pooled, h) = c
                THEN "open" ELSE "unused"]
          /\ clientHost = [c \in Clients |->
                IF PooledClient(pooled, "h2") = c THEN "h2" ELSE "h1"]
    /\ lastUsed = [c \in Clients |-> 0]
    /\ now = 0
    /\ advances = 0
    /\ call = [r \in Callers |-> IdleCall]

NextHost ==
    \/ \E u \in Users, hasKey \in BOOLEAN : InstanceRemoveRead(u, hasKey)
    \/ \E u \in Users : InstanceRemoveKey(u)
    \/ \E u \in Users : InstanceRemoveDelete(u)
    \/ \E p \in Procs, u \in Users, s \in Servers :
          RemoveRead(p, u, s) /\ UNCHANGED restVars
    \/ \E p \in Procs :
          RemoveDelete(p) /\ UNCHANGED restVars
    \/ \E p \in Procs :
          BgRead(p) /\ UNCHANGED restVars
    \/ \E p \in Procs, out \in Outcomes :
          DeleteExec(p, out) /\ UNCHANGED restVars

SpecHost == InitHost /\ [][NextHost]_vars

\* The removal of hosts while getConnection calls (of a connection test, a
\* provisioning or cleanup command, a probe of the monitor) are under way.
NextEvict ==
    \/ \E r \in Callers, h \in Hosts : GetConnection(r, h) /\ UNCHANGED srvVars
    \/ \E r \in Callers : HealthOk(r) /\ UNCHANGED srvVars
    \/ \E r \in Callers : HealthFail(r) /\ UNCHANGED srvVars
    \/ \E r \in Callers : ConnectReady(r) /\ UNCHANGED srvVars
    \/ \E r \in Callers : ConnectFail(r) /\ UNCHANGED srvVars
    \/ \E r \in Callers : Finish(r) /\ UNCHANGED srvVars
    \/ \E u \in Users, hasKey \in BOOLEAN : InstanceRemoveRead(u, hasKey)
    \/ \E u \in Users : InstanceRemoveKey(u)
    \/ \E u \in Users : InstanceRemoveDelete(u)

\* No account has a server; each host may have an open pooled connection.
InitEvict ==
    /\ InitEmpty
    /\ plan = [u \in Users |-> "FREE"]
    /\ alloc = NoAlloc
    /\ others = [u \in Users |-> 0]
    /\ inst = [u \in Users |-> IdleInst]
    /\ \E pooled \in SUBSET Hosts :
          /\ connections = [h \in Hosts |-> PooledClient(pooled, h)]
          /\ clientState = [c \in Clients |->
                IF \E h \in Hosts : PooledClient(pooled, h) = c
                THEN "open" ELSE "unused"]
          /\ clientHost = [c \in Clients |->
                IF PooledClient(pooled, "h2") = c THEN "h2" ELSE "h1"]
    /\ lastUsed = [c \in Clients |-> 0]
    /\ now = 0
    /\ advances = 0
    /\ call = [r \in Callers |-> IdleCall]

SpecEvict == InitEvict /\ [][NextEvict]_vars

\* --------------------------------------------------------- executeCommand
\* The rest of executeCommand once getConnection has returned its client.
\* The 30 s timer fires before the stream closes: the promise is rejected
\* with 'Command execution timeout'; nothing else is done.
ExecTimeout_EndsClient(r) ==
    /\ call[r].pc = "done"
    /\ clientState' = [clientState EXCEPT ![call[r].got] = "ended"]
    /\ connections' = [connections EXCEPT ![call[r].host] = NoClient]
    /\ call' = [call EXCEPT ![r].pc = "timeout"]
    /\ UNCHANGED <<lastUsed, clientHost, now, advances>>

ExecTimeout(r) ==
    /\ call[r].pc = "done"
    /\ call' = [call EXCEPT ![r].pc = "timeout"]
    /\ UNCHANGED <<connections, lastUsed, clientState, clientHost, now,
                   advances>>

\* client.exec called back with an error, or the stream closed with an exit
\* code: the timer is cleared and the promise settled.
ExecReturn(r) ==
    /\ call[r].pc = "done"
    /\ call' = [call EXCEPT ![r].pc = "returned"]
    /\ UNCHANGED <<connections, lastUsed, clientState, clientHost, now,
                   advances>>

NextExec ==
    \/ \E r \in Callers, h \in Hosts : GetConnection(r, h) /\ UNCHANGED srvVars
    \/ \E r \in Callers : HealthOk(r) /\ UNCHANGED srvVars
    \/ \E r \in Callers : HealthFail(r) /\ UNCHANGED srvVars
    \/ \E r \in Callers : ConnectReady(r) /\ UNCHANGED srvVars
    \/ \E r \in Callers : ConnectFail(r) /\ UNCHANGED srvVars
    \/ \E r \in Callers : ExecTimeout(r) /\ UNCHANGED srvVars
    \/ \E r \in Callers : ExecReturn(r) /\ UNCHANGED srvVars
    \/ \E r \in Callers : Finish(r) /\ UNCHANGED srvVars

SpecExec == InitProv /\ [][NextExec]_vars

\* ---------------------------------------------------- FileManagementService
\* Paths are strings: sequences of the characters `/`, `.` and `a`, up to
\* MaxPathLen of them.

\* server.serverPath: `/home/<sshUser>/minecraft/<internalName>`, an absolute
\* path of plain names without a trailing slash; here two levels deep.
ServerPath == <<"/", "a", "/", "a">>

\* str.split(sep)
RECURSIVE Split(_, _)
Split(str, sep) ==
    IF str = <<>> THEN << <<>> >>
    ELSE LET rest == Split(Tail(str), sep)
         IN  IF Head(str) = sep THEN << <<>> >> \o rest
             ELSE << <<Head(str)>> \o Head(rest) >> \o Tail(rest)

\* The segment loop of path.posix.normalize on an absolute path: empty
\* segments and `.` are dropped, `..` drops the segment before it, and
\* nothing goes above `/`.
RECURSIVE NormalizeString(_, _)
NormalizeString(segments, res) ==
    IF segments = <<>> THEN res
    ELSE LET seg == Head(segments)
         IN  IF seg = <<>> \/ seg = <<".">>
             THEN NormalizeString(Tail(segments), res)
             ELSE IF seg = <<".", ".">>
             THEN NormalizeString(Tail(segments),
                      IF res = <<>> THEN res ELSE SubSeq(res, 1, Len(res) - 1))
             ELSE NormalizeString(Tail(segments), Append(res, seg))

\* segments.join('/')
RECURSIVE JoinSlash(_)
JoinSlash(segments) ==
    IF segments = <<>> THEN <<>>
    ELSE IF Len(segments) = 1 THEN Head(segments)
    ELSE Head(segments) \o <<"/">> \o JoinSlash(Tail(segments))

\* path.posix.normalize of an absolute path: a trailing slash is kept,
\* except on `/` itself.
Normalize(str) ==
    LET res == NormalizeString(Split(str, "/"), <<>>)
    IN  IF res = <<>> THEN <<"/">>
        ELSE <<"/">> \o JoinSlash(res) \o
             (IF str[Len(str)] = "/" THEN <<"/">> ELSE <<>>)

\* The path an operation works on.  browseServerFiles and uploadFile take
\* `.` and the empty path for the server path itself.  Otherwise one
\* leading slash is stripped, the rest joined to the server path
\* (path.posix.join leaves an empty argument out and normalizes) and the
\* result normalized once more.
ResolvedPath(op, requestedPath) ==
    IF op \in {"browse", "upload"} /\ requestedPath \in {<<>>, <<".">>}
    THEN ServerPath
    ELSE LET relativePath == IF StartsWith(requestedPath, <<"/">>)
                             THEN Tail(requestedPath) ELSE requestedPath
             joined == IF relativePath = <<>> THEN Normalize(ServerPath)
                       ELSE Normalize(ServerPath \o <<"/">> \o relativePath)
         IN  Normalize(joined)

\* The security check, negated: the path passes.
WithinServerPath_Prefix(fullPath) ==
    StartsWith(fullPath, ServerPath)

WithinServerPath_Strict(fullPath) ==
    StartsWith(fullPath, ServerPath \o <<"/">>)

WithinServerPath(fullPath) ==
    LET normalizedServerPath ==
            IF ServerPath[Len(ServerPath)] = "/"
            THEN SubSeq(ServerPath, 1, Len(ServerPath) - 1) ELSE ServerPath
    IN  \/ StartsWith(fullPath, normalizedServerPath \o <<"/">>)
        \/ fullPath = normalizedServerPath

\* A handler up to its first await.  readFileContent / writeFileContent
\* want a path.  uploadFile checks size, file name, extension and content
\* type (`verdict`); each rejection unlinks the temporary copy.
FileStart(verdict) ==
    /\ fm.pc = "start"
    /\ fm.op # "upload" => verdict = "ok"
    /\ fm' = IF fm.op \in {"read", "write"} /\ fm.path = <<>>
             THEN [fm EXCEPT !.pc = "done", !.out = "File path is required"]
             ELSE IF verdict # "ok"
             THEN [fm EXCEPT !.pc = "done", !.out = verdict, !.tmp = FALSE]
             ELSE [fm EXCEPT !.pc = "lookup"]
    /\ UNCHANGED <<coreVars, vault, moreVars>>

\* findUnique returned: server not found (uploadFile unlinks); else the
\* credentials are decrypted, which may throw; else the path is resolved
\* and checked (uploadFile unlinks on a rejection), and for read / write
\* the extension of the file looked at.
FileLookup(found, decrypts, editable) ==
    /\ fm.pc = "lookup"
    /\ fm' = IF ~found
             THEN [fm EXCEPT !.pc = "done", !.out = "Server not found",
                             !.tmp = FALSE]
             ELSE IF ~decrypts
             THEN [fm EXCEPT !.pc = "done", !.out = "decrypt threw"]
             ELSE IF ~WithinServerPath(ResolvedPath(fm.op, fm.path))
             THEN [fm EXCEPT !.pc = "done", !.out = "Path traversal detected",
                             !.tmp = FALSE]
             ELSE IF fm.op \in {"read", "write"} /\ ~editable
             THEN [fm EXCEPT !.pc = "done", !.out = "File type not editable"]
             ELSE [fm EXCEPT !.pc = "remote"]
    /\ UNCHANGED <<coreVars, vault, moreVars>>

\* The remote part.  SshService.listDirectory answers from its cache when
\* it holds a young listing of the path.  Otherwise a session is taken from
\* the pool and, when that worked, the command (cat, base64 -d, ls -la) or
\* the transfer run; a listing that succeeded is cached under its path.
\* uploadFile unlinks the temporary copy on both ways out.
FileRemote(connects, succeeds) ==
    /\ fm.pc = "remote"
    /\ LET fullPath == ResolvedPath(fm.op, fm.path)
           good == connects /\ succeeds
       IN  fm' = IF fm.op = "browse" /\ fullPath \in fm.cache
                 THEN [fm EXCEPT !.pc = "done", !.out = "cached listing"]
                 ELSE [fm EXCEPT !.pc = "done",
                          !.out = IF good THEN "ok" ELSE "remote failed",
                          !.sessions = @ + 1,
                          !.cmds = IF connects THEN @ + 1 ELSE @,
                          !.tmp = FALSE,
                          !.cache = IF fm.op = "browse" /\ good
                                    THEN @ \cup {fullPath} ELSE @]
    /\ UNCHANGED <<coreVars, vault, moreVars>>

\* One call of one of the four operations, on any path of the bound; an
\* upload has its temporary copy on disk.  For a listing, SshService may
\* hold young listings of the server's directory and of the directory of a
\* neighbouring server on the same host.
InitFiles ==
    /\ InitBare /\ vault = NoVault
    /\ \E op \in {"read", "write", "browse", "upload"},
          requested \in UNION {[1..k -> {"/", ".", "a"}] : k \in 0..MaxPathLen},
          cached \in SUBSET {ServerPath, ServerPath \o <<"a">>} :
          fm = [op |-> op, path |-> requested, pc |-> "start", out |-> "none",
                tmp |-> (op = "upload"), sessions |-> 0, cmds |-> 0,
                cache |-> IF op = "browse" THEN cached ELSE {}]

NextFiles ==
    \/ \E verdict \in {"ok", "File too large", "Invalid filename",
                       "File type not allowed",
                       "File content does not match extension"} :
          FileStart(verdict)
    \/ \E found, decrypts, editable \in BOOLEAN :
          FileLookup(found, decrypts, editable)
    \/ \E connects, succeeds \in BOOLEAN : FileRemote(connects, succeeds)

SpecFiles == InitFiles /\ [][NextFiles]_vars

\* ------------------------------------------------------------ encryption
\* Buffer.toString('hex'): two digits a byte.
HexOf(bytes) ==
    [i \in 1..(2 * Len(bytes)) |->
        IF i % 2 = 1 THEN "0"
        ELSE <<"0", "1", "2", "3", "4", "5">>[bytes[i \div 2] + 1]]

\* Buffer.from(hex, 'hex')
BytesOf(hex) ==
    [i \in 1..(Len(hex) \div 2) |->
        CHOOSE b \in 0..5 : <<"0", "1", "2", "3", "4", "5">>[b + 1] = hex[2 * i]]

\* crypto.scryptSync(password, salt, 32): a key that depends on both.
Scrypt(password, salt) == (password + salt) % ByteRange

\* cipher.update(text, 'utf8', 'hex') + cipher.final('hex') of aes-256-cbc:
\* the text is encoded (`a` in one byte, `e`, which stands for an accented
\* letter, in two), padded to whole blocks
\* with the number of bytes added, each block mixed with the block before it
\* (the IV for the first) and enciphered under the key, and the result
\* written in hex.  The block cipher is a keyed permutation of the bytes.
CipherHex(text, key, iv) ==
    LET enc[i \in 0..Len(text)] ==
            IF i = 0 THEN <<>>
            ELSE enc[i - 1] \o (IF text[i] = "a" THEN <<1>> ELSE <<2, 3>>)
        data == enc[Len(text)]
        padLen == BlockSize - (Len(data) % BlockSize)
        padded == data \o [i \in 1..padLen |-> padLen]
        c[n \in 1..Len(padded)] ==
            (padded[n] + key +
                (IF n <= BlockSize THEN iv[n] ELSE c[n - BlockSize])) % ByteRange
    IN  HexOf([n \in 1..Len(padded) |-> c[n]])

\* decipher.update(hex, 'hex', 'utf8') + decipher.final('utf8'): the inverse;
\* <<"!">> stands for the exception thrown on a wrong length or padding.
DecipherHex(hex, key, iv) ==
    LET c == BytesOf(hex)
        p == [n \in 1..Len(c) |->
                (c[n] + 2 * ByteRange - key -
                    (IF n <= BlockSize THEN iv[n] ELSE c[n - BlockSize]))
                % ByteRange]
        padLen == p[Len(p)]
        data == SubSeq(p, 1, Len(p) - padLen)
        dec[i \in 1..(Len(data) + 1)] ==
            IF i > Len(data) THEN <<>>
            ELSE IF data[i] = 1 THEN <<"a">> \o dec[i + 1]
            ELSE IF data[i] = 2 /\ i < Len(data) /\ data[i + 1] = 3
            THEN <<"e">> \o dec[i + 2]
            ELSE <<"?">> \o dec[i + 1]
    IN  IF \/ Len(c) = 0 \/ Len(c) % BlockSize # 0 \/ Len(iv) # BlockSize
           \/ padLen \notin 1..BlockSize
           \/ \E n \in (Len(p) - padLen + 1)..Len(p) : p[n] # padLen
        THEN <<"!">>
        ELSE dec[1]

\* EncryptionService.encrypt: `salt:iv:encrypted`, the key derived from the
\* service's key and the salt.
Encrypt(text, salt, iv, secret) ==
    HexOf(<<salt>>) \o <<":">> \o HexOf(iv) \o <<":">> \o
        CipherHex(text, Scrypt(secret, salt), iv)

\* EncryptionService.decrypt, with decryptLegacy for a token that has not
\* three parts (the service's key used as it is).
Decrypt_KeyNotDerived(encryptedText, secret) ==
    LET parts == Split(encryptedText, ":")
    IN  IF Len(parts) \in {2, 3}
        THEN DecipherHex(parts[Len(parts)], secret % ByteRange,
                         BytesOf(parts[Len(parts) - 1]))
        ELSE <<"!">>

Decrypt(encryptedText, secret) ==
    LET parts == Split(encryptedText, ":")
    IN  IF Len(parts) = 3
        THEN IF Len(parts[1]) = 2
             THEN DecipherHex(parts[3], Scrypt(secret, BytesOf(parts[1])[1]),
                              BytesOf(parts[2]))
             ELSE <<"!">>
        ELSE IF Len(parts) = 2
        THEN DecipherHex(parts[2], secret % ByteRange, BytesOf(parts[1]))
        ELSE <<"!">>

\* ServersService.encrypt and InstancesService.encrypt: `iv:encrypted`, the
\* key derived from process.env.ENCRYPTION_KEY, or from the built-in default
\* when that is not set (a secret of length 0 here), and the fixed salt
\* 'salt'.
ServiceEncrypt(text, iv, secret) ==
    LET encryptionKey == IF secret = 0 THEN MinKeyLength ELSE secret
    IN  HexOf(iv) \o <<":">> \o CipherHex(text, Scrypt(encryptionKey, 1), iv)

\* The schema of ConfigModule.forRoot: ENCRYPTION_KEY is required and has
\* at least 32 characters.
EnvValid_Required(secret) == secret > 0

EnvValid(secret) == secret > 0 /\ secret >= MinKeyLength

\* The process starts: the environment is validated while AppModule is
\* loaded, then EncryptionService is constructed (it wants a key).
Boot ==
    /\ vault.up = "boot"
    /\ vault' = [vault EXCEPT
                    !.up = IF EnvValid(vault.secret) /\ vault.secret # 0
                           THEN "running" ELSE "refused"]
    /\ UNCHANGED <<coreVars, fm, moreVars>>

\* A secret is written: `who` is ServersService (the console password of
\* create) or InstancesService (sshPassword / sshKey of create and update).
ServiceWrite(who, text, iv) ==
    /\ vault.up = "running" /\ vault.by = "none"
    /\ vault' = [vault EXCEPT !.by = who, !.text = text, !.used = vault.secret,
                              !.token = ServiceEncrypt(text, iv, vault.secret)]
    /\ UNCHANGED <<coreVars, fm, moreVars>>

\* EncryptionService.encrypt of a text that is not empty.
VaultEncrypt(text, salt, iv) ==
    /\ vault.up = "running" /\ vault.by = "none"
    /\ text # <<>>
    /\ vault' = [vault EXCEPT !.by = "EncryptionService", !.text = text,
                              !.used = vault.secret,
                              !.token = Encrypt(text, salt, iv, vault.secret)]
    /\ UNCHANGED <<coreVars, fm, moreVars>>

\* EncryptionService.decrypt of what was encrypted.
VaultDecrypt ==
    /\ vault.by # "none" /\ vault.back = <<>>
    /\ vault' = [vault EXCEPT !.back = Decrypt(vault.token, vault.secret)]
    /\ UNCHANGED <<coreVars, fm, moreVars>>

\* The process is about to start with ENCRYPTION_KEY unset, one character
\* short, just long enough, or longer.
InitVault ==
    /\ InitBare /\ fm = NoFile
    /\ \E secret \in {0, MinKeyLength - 1, MinKeyLength, MinKeyLength + 1} :
          vault = [NoVault EXCEPT !.secret = secret, !.up = "boot", !.used = 0]

\* One secret is encrypted in a behaviour: any text of the bound, under any
\* salt and IV.
NextVault ==
    \/ Boot
    \/ /\ vault.by = "none"
       /\ \E who \in {"ServersService", "InstancesService"},
             text \in UNION {[1..k -> {"a", "e"}] : k \in 1..MaxTextLen},
             iv \in [1..BlockSize -> 0..(ByteRange - 1)] :
             ServiceWrite(who, text, iv)
    \/ /\ vault.by = "none"
       /\ \E text \in UNION {[1..k -> {"a", "e"}] : k \in 1..MaxTextLen},
             salt \in 0..(ByteRange - 1),
             iv \in [1..BlockSize -> 0..(ByteRange - 1)] :
             VaultEncrypt(text, salt, iv)
    \/ VaultDecrypt

SpecVault == InitVault /\ [][NextVault]_vars

\* ------------------------------------------------- remove against start
\* ServersService.remove and ServersService.start, with their background
\* phases, on the two provisioned servers.
NextPurge ==
    \/ \E p \in Procs, u \in Users, s \in Servers :
          StartLimit(p, u, s) /\ UNCHANGED restVars
    \/ \E p \in Procs : StartRead(p) /\ UNCHANGED restVars
    \/ \E p \in Procs : StartFlip(p) /\ UNCHANGED restVars
    \/ \E p \in Procs : Respond(p) /\ UNCHANGED restVars
    \/ \E p \in Procs : BgRead(p) /\ UNCHANGED restVars
    \/ \E p \in Procs, up \in BOOLEAN, throws \in BOOLEAN :
          StartExec(p, up, throws) /\ UNCHANGED restVars
    \/ \E p \in Procs, throws \in BOOLEAN :
          StartProbe(p, throws) /\ UNCHANGED restVars
    \/ \E p \in Procs : StartCommit(p) /\ UNCHANGED restVars
    \/ \E p \in Procs : BgFail(p) /\ UNCHANGED restVars
    \/ \E p \in Procs, u \in Users, s \in Servers :
          RemoveRead(p, u, s) /\ UNCHANGED restVars
    \/ \E p \in Procs : RemoveDelete(p) /\ UNCHANGED restVars
    \/ \E p \in Procs, out \in Outcomes :
          DeleteExec(p, out) /\ UNCHANGED restVars

SpecPurge == InitLifecycle /\ [][NextPurge]_vars

\* ------------------------------------------------------------------ claims

\* The clients of host h that are in a given state.
ClientsIn(h, st) == {c \in Clients : clientHost[c] = h /\ clientState[c] = st}

\* C1: for every host id at most one connect attempt started by
\* getConnection is in flight at any time.
C1_OneConnectInFlight ==
    \A h \in Hosts : Cardinality(ClientsIn(h, "connecting")) <= 1

\* C2: every host id has at most one open pooled session: when a new session
\* is stored, every session opened earlier for the host has been ended.
C2_OneOpenSession ==
    \A h \in Hosts : Cardinality(ClientsIn(h, "open")) <= 1

\* C3: the row of a server is deleted only after its remote cleanup has run
\* to its end (or logged its failure): a remove that has deleted the row has
\* no cleanup still under way.
C3_CleanupBeforeDelete ==
    \A p \in Procs :
        (proc[p].op = "remove" /\ proc[p].resp = "deleted")
            => proc[p].bg = "done"

\* C4: once a remove has deleted the row and its background work has ended,
\* the cleanup was not skipped: neither the unit file nor the directory of
\* the server is left on the host.
C4_NothingOutlivesRow ==
    \A p \in Procs :
        (/\ proc[p].op = "remove" /\ proc[p].resp = "deleted"
         /\ proc[p].bg = "done")
            => ~unit[proc[p].srv] /\ ~dir[proc[p].srv]

C10_FailedSetupIsError ==
    \A p \in Procs :
        (/\ proc[p].op = "create" /\ proc[p].bg = "done" /\ proc[p].bad
         /\ db[proc[p].srv].exists)
            => db[proc[p].srv].status = "ERROR"

\* C6: of two concurrent start requests for one server at most one passes
\* the state check: never are two of them both past the check and before
\* their flip to STARTING.
C6_OneStartPasses ==
    \A p, q \in Procs :
        (/\ p # q
         /\ proc[p].op = "start" /\ proc[q].op = "start"
         /\ proc[p].srv = proc[q].srv
         /\ proc[p].pc = "flip") => proc[q].pc # "flip"

\* The rows of account u recorded RUNNING.
RunningOf(u) == {s \in ServersOf(u) : db[s].status = "RUNNING"}

\* C7: the number of an account's servers recorded RUNNING never exceeds
\* the running ceiling of its plan.
C7_RunningWithinPlan ==
    \A u \in Users : Cardinality(RunningOf(u)) <= MaxRunningServersOf(plan[u])

C9_StopCommitsOnlyInactive ==
    [][\A p \in Procs :
         (/\ proc[p].op = "stop"
          /\ proc[p].bg = "exec"
          /\ proc'[p].bg = "commit") => ~active'[proc[p].srv]]_vars

ProbeReported(s) ==
    /\ chk[s].pc = "probe" /\ chk'[s].pc # "probe"
    /\ sweep.clean /\ sweep'.clean

\* The check of server s performs its update.
CheckWrites(s) ==
    /\ chk[s].pc = "commit" /\ chk'[s].pc = "idle"
    /\ db[s].exists
    /\ <<db, writer>>' # <<db, writer>>

\* C12: in a check whose probe reports active, a server recorded STOPPED is
\* changed to RUNNING with lastStartedAt stamped, and a server recorded
\* STARTING is changed to RUNNING.
C12_ActiveProbeAdopts ==
    [][\A s \in Servers :
         /\ (/\ ProbeReported(s) /\ active[s]
             /\ chk[s].snap \in {"STOPPED", "STARTING"})
                => chk'[s].pc = "commit" /\ chk'[s].run
         /\ (CheckWrites(s) /\ chk[s].run /\ chk[s].snap = "STOPPED")
                => db'[s].status = "RUNNING" /\ db'[s].lastStartedAt
         /\ (CheckWrites(s) /\ chk[s].run /\ chk[s].snap = "STARTING")
                => db'[s].status = "RUNNING"]_vars

\* C12 witness: with no request at all, the unit of the stopped server s2
\* was started on the host and the monitor has recorded it RUNNING.
C12_Witness ==
    /\ \A p \in Procs : proc[p].op = "none"
    /\ writer["s2"] = <<"monitor", 0>>
    /\ db["s2"].status = "RUNNING" /\ db["s2"].lastStartedAt

\* C13: in a check whose probe reports inactive, a server recorded STOPPING
\* is changed to STOPPED with lastStoppedAt stamped and the player count
\* cleared, and a server recorded RUNNING is changed to STOPPED with
\* lastStoppedAt stamped.
C13_InactiveProbeStops ==
    [][\A s \in Servers :
         /\ (/\ ProbeReported(s) /\ ~active[s]
             /\ chk[s].snap \in {"STOPPING", "RUNNING"})
                => chk'[s].pc = "commit" /\ ~chk'[s].run
         /\ (CheckWrites(s) /\ ~chk[s].run /\ chk[s].snap = "STOPPING")
                => /\ db'[s].status = "STOPPED" /\ db'[s].lastStoppedAt
                   /\ ~db'[s].currentPlayers
         /\ (CheckWrites(s) /\ ~chk[s].run /\ chk[s].snap = "RUNNING")
                => db'[s].status = "STOPPED" /\ db'[s].lastStoppedAt]_vars

\* C13 witness: the running server s1 died on the host and the monitor has
\* recorded it STOPPED.
C13_Witness ==
    /\ \A p \in Procs : proc[p].op = "none"
    /\ writer["s1"] = <<"monitor", 0>>
    /\ db["s1"].status = "STOPPED" /\ db["s1"].lastStoppedAt
    /\ ~db["s1"].currentPlayers

\* The sweep under way (or just ended) follows at once a sweep that ran to
\* its end without failure, and since that earlier sweep started no request
\* has arrived or moved and no unit has changed state on the host.
SecondQuietSweep ==
    /\ sweep.again
    /\ proc = sweep.proc
    /\ envs = sweep.envs

\* C14: during the second of two sweeps in a row, with no change of remote
\* state and no user operation in between, no check reaches its update:
\* nothing is written and no row changes state.
C14_SecondSweepWritesNothing ==
    SecondQuietSweep => \A s \in Servers : chk[s].pc # "commit"

\* C14 witness: the first sweep changed a row, the second one has probed
\* every server and ended, undisturbed.
C14_Witness ==
    /\ SecondQuietSweep /\ sweep.clean /\ SweepOver
    /\ \E s \in Servers : writer[s] = <<"monitor", 0>>

\* C15: a check that ends, be it by a failure of its probe or of its update
\* (caught and logged), leaves the check of every other server where it
\* was: the others are still probed and reconciled.
C15_FailureIsIsolated ==
    [][\A s, t \in Servers :
         (/\ s # t
          /\ chk[s].pc \in {"probe", "commit"}
          /\ chk'[s].pc = "idle") => chk'[t] = chk[t]]_vars

\* C15 witness: in the first sweep a probe or an update failed, the sweep
\* has ended all the same and the row of a server was reconciled by it.
C15_Witness ==
    /\ ticks = 1 /\ SweepOver /\ ~sweep.clean
    /\ \E s \in Servers : writer[s] = <<"monitor", 0>>

FreeGamePorts ==
    {q \in GAME_PORT_START..GAME_PORT_END :
        \A r \in alloc.rows : r.gamePort # q}

FreeRconPorts ==
    {q \in RCON_PORT_START..RCON_PORT_END :
        \A r \in alloc.rows : r.rconPort # q}

\* C17: allocatePorts answers the lowest port of the game range not used as
\* a game port and the lowest port of the console range not used as a
\* console port, each whatever the other column holds; the ranges are
\* disjoint; it fails exactly when one of the ranges has no free port.
C17_LowestFreePorts ==
    alloc.pc = "done" =>
        /\ (GAME_PORT_START..GAME_PORT_END) \cap
               (RCON_PORT_START..RCON_PORT_END) = {}
        /\ (alloc.err # "none") <=> (FreeGamePorts = {} \/ FreeRconPorts = {})
        /\ (alloc.err = "none") =>
               /\ alloc.gamePort \in FreeGamePorts
               /\ \A q \in FreeGamePorts : alloc.gamePort <= q
               /\ alloc.rconPort \in FreeRconPorts
               /\ \A q \in FreeRconPorts : alloc.rconPort <= q

\* C17 witness: on a host whose game ports have a hole and whose console
\* ports have none, the call answered the hole and the first console port
\* after the last one in use.
C17_Witness ==
    /\ alloc.pc = "done" /\ alloc.err = "none"
    /\ alloc.rows # {}
    /\ alloc.gamePort - GAME_PORT_START < Cardinality(alloc.rows)
    /\ alloc.rconPort - RCON_PORT_START = Cardinality(alloc.rows)

\* C18: a create is rejected with the quota error exactly when the plan of
\* the account is FREE and it owns 3 servers or more, or PRO and it owns 10
\* or more (never on PREMIUM); a rejected create has ended without a row,
\* without ports and without a background phase, and changes nothing after.
C18_CreateQuota ==
    [][\A p \in Procs :
         /\ (proc[p].op = "none" /\ proc'[p].op = "create") =>
              LET u == proc'[p].usr
                  n == Cardinality(ServersOf(u)) + others[u]
              IN /\ (proc'[p].resp = "Forbidden") <=>
                        \/ plan[u] = "FREE" /\ n >= 3
                        \/ plan[u] = "PRO" /\ n >= 10
                 /\ (proc'[p].resp = "Forbidden") =>
                        /\ proc'[p].pc = "done" /\ proc'[p].bg = "none"
                        /\ proc'[p].gamePort = 0 /\ proc'[p].rconPort = 0
                        /\ <<db, writer, active, dir, jar, unit>>' =
                               <<db, writer, active, dir, jar, unit>>
         /\ (proc[p].op = "create" /\ proc[p].resp = "Forbidden") =>
              proc'[p] = proc[p]]_vars

\* C18 witness: a FREE account that owned two servers created a third one
\* and its next create was rejected.
C18_Witness ==
    \E p, q \in Procs :
        /\ plan["u1"] = "FREE" /\ others["u1"] = 2
        /\ proc[p].op = "create" /\ proc[p].usr = "u1"
        /\ proc[p].resp = "STOPPED" /\ db[proc[p].srv].exists
        /\ proc[q].op = "create" /\ proc[q].usr = "u1"
        /\ proc[q].resp = "Forbidden"

\* C19: a start of an account whose servers recorded RUNNING are as many as
\* the running ceiling of its plan (FREE 1, PRO 3, PREMIUM 10) or more is
\* rejected with the quota error; a rejected start has ended without a
\* write and without a background phase; and the quota is not looked at
\* again: a background phase whose probe was active writes RUNNING whatever
\* the account runs by then.
C19_StartQuota ==
    [][\A p \in Procs :
         /\ (proc[p].op = "none" /\ proc'[p].op = "start") =>
              LET u == proc'[p].usr
                  n == Cardinality(RunningOf(u))
                  ceiling == IF plan[u] = "FREE" THEN 1
                             ELSE IF plan[u] = "PRO" THEN 3 ELSE 10
              IN /\ (n >= ceiling) => proc'[p].resp = "Forbidden"
                 /\ (proc'[p].resp = "Forbidden") =>
                        /\ proc'[p].pc = "done" /\ proc'[p].bg = "none"
                        /\ <<db, writer, active, dir, jar, unit>>' =
                               <<db, writer, active, dir, jar, unit>>
         /\ (proc[p].op = "start" /\ proc[p].resp = "Forbidden") =>
              proc'[p] = proc[p]
         /\ (/\ proc[p].op = "start" /\ proc[p].bg = "commit" /\ proc[p].run
             /\ proc'[p].bg = "done") =>
              db'[proc[p].srv].status = "RUNNING"]_vars

\* C19 witness: a FREE account with one server RUNNING asked to start its
\* other server, which is still STOPPED, and was refused.
C19_Witness ==
    \E p \in Procs, s \in Servers :
        /\ plan["u1"] = "FREE"
        /\ proc[p].op = "start" /\ proc[p].usr = "u1"
        /\ proc[p].resp = "Forbidden"
        /\ s # proc[p].srv
        /\ db[s].status = "RUNNING"
        /\ db[proc[p].srv].status = "STOPPED"
        /\ writer[proc[p].srv] = <<"none", 0>>

\* C20: a removal of a host that a server still references is rejected with
\* a conflict; the host stays registered, its pooled connection is neither
\* closed nor forgotten, and nothing else changes.
C20_HostRemovalConflict ==
    [][\A u \in Users :
         (/\ inst'[u].calls = inst[u].calls + 1
          /\ inst[u].exists
          /\ \E s \in Servers : db[s].exists /\ db[s].userId = u)
             => /\ inst'[u].resp = "Conflict" /\ inst'[u].pc = "done"
                /\ inst'[u].exists
                /\ connections' = connections
                /\ clientState' = clientState
                /\ <<db, writer, active, dir, jar, unit, proc>>' =
                       <<db, writer, active, dir, jar, unit, proc>>]_vars

\* C20 witness: the removal of u1's host was rejected while a server of u1
\* was there; the host is registered and its pooled connection still open.
C20_Witness ==
    /\ inst["u1"].resp = "Conflict" /\ inst["u1"].exists
    /\ \E s \in Servers : db[s].exists /\ db[s].userId = "u1"
    /\ connections["h1"] # NoClient
    /\ clientState[connections["h1"]] = "open"

\* C21: once a host has been removed, the pool holds no session under its
\* id, also when a getConnection for it was under way at the removal.
C21_NoSessionOfRemovedHost ==
    \A u \in Users :
        (~inst[u].exists /\ inst[u].pc = "done")
            => connections[HostOf(u)] = NoClient

\* C22: when a command runs into its timeout, the call fails with the timeout
\* error and the session of the host stays in the pool as it was: same map
\* entry, still open, same lastUsed; the next getConnection for the host
\* takes that entry again.
C22_TimeoutLeavesSession ==
    [][\A r \in Callers :
          (call[r].pc = "done" /\ call'[r].pc = "timeout")
              => /\ connections' = connections
                 /\ clientState' = clientState
                 /\ lastUsed' = lastUsed
                 /\ call'[r].got = call[r].got
                 /\ (connections[call[r].host] = call[r].got
                        => CachedUsable(call[r].host, now)')]_vars

\* A command timed out on a pooled session and another call is probing
\* that very session in order to reuse it.
C22_Witness ==
    \E r, q \in Callers :
        /\ call[r].pc = "timeout"
        /\ call[q].pc = "health"
        /\ call[q].ex = call[r].got
        /\ connections[call[r].host] = call[r].got
        /\ clientState[call[r].got] = "open"

\* Where a requested path leads when it is walked, name by name, from the
\* server's directory: the directories from `/` down to the place reached.
Lands(requested) ==
    NormalizeString(Split(requested, "/"), NormalizeString(Split(ServerPath, "/"), <<>>))

\* The place reached is neither the server's directory nor below it.
EscapesRoot(requested) ==
    LET root == NormalizeString(Split(ServerPath, "/"), <<>>)
        at == Lands(requested)
    IN  ~(Len(at) >= Len(root) /\ SubSeq(at, 1, Len(root)) = root)

\* The call got as far as its path check (server found, credentials
\* decrypted).
PathChecked ==
    \/ fm.pc = "remote"
    \/ fm.pc = "done" /\ fm.out \in {"Path traversal detected",
                                     "File type not editable", "ok",
                                     "remote failed", "cached listing"}

\* C23: readFileContent and writeFileContent reject a path with the
\* path-traversal error exactly when it leads out of the server's
\* directory; a path that leads to that directory or below it passes.
C23_TraversalIffEscapes ==
    (fm.op \in {"read", "write"} /\ PathChecked)
        => ((fm.out = "Path traversal detected") <=> EscapesRoot(fm.path))

\* A read or write of a path that leads to a neighbour of the server's
\* directory whose name begins with the server's name was rejected.
C23_Witness ==
    /\ fm.op \in {"read", "write"}
    /\ EscapesRoot(fm.path)
    /\ StartsWith(ResolvedPath(fm.op, fm.path), ServerPath)
    /\ fm.out = "Path traversal detected"

C25_TempCopyRemoved ==
    (fm.op = "upload" /\ fm.pc = "done") => ~fm.tmp

\* C26: what EncryptionService.encrypt made of a text that is not empty,
\* EncryptionService.decrypt turns back into that text.
C26_DecryptInvertsEncrypt ==
    (vault.by = "EncryptionService" /\ vault.back # <<>>)
        => vault.back = vault.text

\* A text of more than one block, with a letter of two bytes, encrypted
\* under a salt that differs from the first byte of the IV, came back.
C26_Witness ==
    /\ vault.by = "EncryptionService"
    /\ Len(vault.text) = MaxTextLen /\ \E i \in 1..MaxTextLen : vault.text[i] = "e"
    /\ BytesOf(Split(vault.token, ":")[1])[1] # BytesOf(Split(vault.token, ":")[2])[1]
    /\ vault.back = vault.text

\* C27: every secret ServersService or InstancesService writes has the three
\* fields salt, iv and ciphertext; none has the two fields of the old form.
C27_WritesHaveThreeFields ==
    vault.by \in {"ServersService", "InstancesService"}
        => Len(Split(vault.token, ":")) = 3

\* C28: nothing is encrypted or decrypted unless the master secret is set
\* and has at least 32 characters; otherwise the process does not start.
C28_NoWeakSecretInUse ==
    /\ vault.by # "none" => vault.used >= MinKeyLength
    /\ vault.up = "running" => vault.secret >= MinKeyLength

\* The process refused to start on a secret one character short.
C28_Witness ==
    vault.up = "refused" /\ vault.secret = MinKeyLength - 1

\* C29: a server row is deleted only while its recorded status is not
\* RUNNING (a remove that finds RUNNING answers Conflict, keeps the row and
\* starts no cleanup).
C29_DeletedOnlyWhenNotRunning ==
    [][\A s \in Servers :
          (db[s].exists /\ ~db'[s].exists) => db[s].status # "RUNNING"]_vars

\* The remove that finds its server RUNNING: Conflict, row kept, no cleanup.
C29_RunningIsConflict ==
    [][\A p \in Procs :
          (proc[p].pc = "idle" /\ proc'[p].op = "remove"
             /\ db[proc'[p].srv].exists
             /\ db[proc'[p].srv].userId = proc'[p].usr
             /\ db[proc'[p].srv].status = "RUNNING")
          => /\ proc'[p].resp = "Conflict" /\ proc'[p].pc = "done"
             /\ proc'[p].bg = "none"
             /\ db' = db]_vars

\* C30: a check whose probe reports inactive on a server recorded STARTING
\* ends there: the row keeps its status and nothing is written.
C30_StartingInactiveUntouched ==
    [][\A s \in Servers :
          (ProbeReported(s) /\ ~active[s] /\ chk[s].snap = "STARTING")
              => /\ chk'[s].pc = "idle"
                 /\ db' = db /\ writer' = writer]_vars

\* C30 witness: a sweep has run to its end, undisturbed, over a server that
\* is recorded STARTING while its unit is not active; the row is as the
\* start request left it.
C30_Witness ==
    /\ Undisturbed /\ SweepOver
    /\ \E s \in Servers, p \in Procs :
          /\ db[s].status = "STARTING" /\ ~active[s]
          /\ writer[s] = <<"req", p>>

\* C31 (selection half): monitorAllServers starts no check of a row that is
\* recorded ERROR when its findMany runs.
C31_ErrorNotSelected ==
    [][\A s \in Servers :
          (chk[s].pc = "idle" /\ chk'[s].pc = "probe")
              => db[s].exists /\ db[s].status # "ERROR"]_vars

\* C31: no step of a reconciliation tick changes a row that is recorded
\* ERROR: the tick does not select it, and the update of a check leaves it
\* as it is.
C31_ErrorRowUntouched ==
    [][\A s \in Servers :
          (db[s].exists /\ db[s].status = "ERROR")
              => /\ ~(chk[s].pc = "idle" /\ chk'[s].pc = "probe")
                 /\ (chk[s].pc = "commit" /\ chk'[s].pc = "idle")
                        => db'[s] = db[s]]_vars

\* C32: getConnection probes the cached entry of the host only when it has
\* idled for less than CONNECTION_TIMEOUT; a call returns that cached client
\* only from a probe of it that succeeded, on a client that is open; every
\* other client a call returns is the one the call itself has just connected,
\* so the client of a failed probe is never what the call returns.
C32_ReturnsProbedOrNew ==
    [][\A r \in Callers :
          /\ (call[r].pc = "idle" /\ call'[r].pc = "health")
                => /\ call'[r].ex # NoClient
                   /\ call'[r].ex = connections[call'[r].host]
                   /\ now - lastUsed[call'[r].ex] < CONNECTION_TIMEOUT
          /\ (call[r].pc # "done" /\ call'[r].pc = "done")
                => \/ /\ call[r].pc = "health"
                      /\ call'[r].got = call[r].ex
                      /\ clientState[call[r].ex] = "open"
                      /\ clientState'[call[r].ex] = "open"
                   \/ /\ call[r].pc = "connect"
                      /\ call'[r].got = call[r].cl
                      /\ call[r].cl # call[r].ex
                      /\ clientState[call[r].cl] = "connecting"
                      /\ clientState'[call[r].cl] = "open"
          /\ (call[r].pc = "health" /\ call'[r].pc = "connect")
                => /\ clientState'[call[r].ex] = "ended"
                   /\ call'[r].ex = call[r].ex
                   /\ call'[r].cl # call[r].ex]_vars

\* C32 witness: time has passed, short of the idle timeout, and two calls
\* have returned the one client ever constructed: one of them reused the
\* cached entry after its probe; the entry was refreshed at that time.
C32_Witness ==
    /\ now = CONNECTION_TIMEOUT - 1
    /\ \A r \in Callers : call[r].pc = "done" /\ call[r].got = 1
    /\ clientState[1] = "open" /\ clientState[2] = "unused"
    /\ lastUsed[1] = now

\* The entry of key k has outlived the TTL at time t.
Expired(k, t) ==
    directoryCache[k] # NoEntry /\ t - directoryCache[k] >= CACHE_TTL

\* C33 (serving half): a call answers from the cache, issuing no command,
\* exactly when the key has an entry stamped less than CACHE_TTL before;
\* otherwise it issues the listing command, and a listing it then obtains
\* is stored under the key.
C33_ServedIffYoung ==
    [][\A r \in Callers :
          /\ (ls.call[r].pc = "idle" /\ ls'.call[r].pc # "idle")
                => LET k == ls'.call[r].key
                   IN  IF directoryCache[k] # NoEntry
                          /\ ls.now - directoryCache[k] < CACHE_TTL
                       THEN /\ ls'.call[r].out = "cached"
                            /\ ls'.call[r].pc = "done"
                       ELSE /\ ls'.call[r].pc = "exec"
                            /\ ls'.call[r].out = "none"
          /\ (ls.call[r].pc = "exec" /\ ls'.call[r].out = "fresh")
                => directoryCache'[ls.call[r].key] = ls.call[r].t]_vars

\* C33: as above, and an entry found expired is evicted: once the call that
\* found it has ended, the cache does not hold it any more.
C33_ExpiredEvicted ==
    \A r \in Callers :
        ls.call[r].pc = "done" /\ ls.call[r].out # "cached"
            => ~Expired(ls.call[r].key, ls.call[r].t)

\* The destination is a mods or a plugins directory.
JarDirectory(dest) ==
    LET normalizedPath == IF StartsWith(dest, <<"/">>) THEN dest
                          ELSE <<"/">> \o dest
    IN  \/ Includes(normalizedPath, <<"/", "mods">>)
        \/ Includes(normalizedPath, <<"/", "plugins">>)

\* C34 (listed directories): a .jar for the server root, config, a world
\* directory, datapacks or resourcepacks is refused, and one for mods or
\* plugins passes the extension check.
C34_ListedDirectories ==
    (upload.pc = "checked" /\ ToLowerCase(upload.ext) = ".jar")
        => /\ upload.dest \in {<<>>, <<".">>, <<"config">>, <<"/", "config">>,
                               <<"world">>, <<"world", "_nether">>,
                               <<"datapacks">>, <<"resourcepacks">>}
                 => upload.out = "BadRequest"
           /\ upload.dest \in {<<"mods">>, <<"/", "mods">>, <<"plugins">>}
                 => upload.out = "accepted"

\* C34: a .jar passes the extension check only when its destination is a
\* mods or a plugins directory.
C34_JarOnlyInModsOrPlugins ==
    (/\ upload.pc = "checked" /\ ToLowerCase(upload.ext) = ".jar"
     /\ upload.out = "accepted")
        => JarDirectory(upload.dest)

\* C35 (thrown errors): a test in which a command of getSystemInfo threw, or
\* whose connection was refused, ends with ERROR, not with CONNECTED.
C35_ThrowIsError ==
    [][\A t \in Tests :
          (remote.test[t].pc \in {"refused", "caught"}
             /\ remote'.test[t].pc = "done")
              => /\ remote'.row.status = "ERROR"
                 /\ remote'.row.lastErrorMsg # "null"]_vars

\* C35: a test writes CONNECTED only when every sub-probe of its
\* getSystemInfo succeeded: returned, with exit status 0 and an output that
\* could be parsed.
C35_ConnectedOnlyIfAllProbesOk ==
    [][\A t \in Tests :
          (remote.test[t].pc # "done" /\ remote'.test[t].pc = "done"
             /\ remote'.row.status = "CONNECTED")
              => remote.test[t].clean]_vars

\* The binary the unit of the server will run: run.sh for a Forge started
\* by run.sh, else server.jar.
Artifact == IF setup.type = "FORGE" /\ setup.runsh THEN setup.made
            ELSE setup.jar

Configuring == setup.pc \in {"chmod", "properties", "unit", "done"}

\* C36 (direct download): the workflow of a downloaded server.jar reaches
\* permission setting only with a server.jar that exists and is not empty,
\* and a workflow that failed has set the row to ERROR.
C36_DirectVerified ==
    /\ (setup.type = "DIRECT" /\ Configuring) => setup.jar = "full"
    /\ setup.pc = "failed" => setup.status = "ERROR"

\* C36: whatever the variant, the workflow is at permission setting,
\* configuration writing or unit installation only with a server binary
\* that exists and is not empty.
C36_BinaryVerified ==
    Configuring => Artifact = "full"

\* setupServerOnRemote of server s has run to its end without a throw.
Provisioned(s) ==
    \E q \in Procs :
        /\ proc[q].op = "create" /\ proc[q].srv = s
        /\ proc[q].bg = "done" /\ proc[q].step = Len(SetupSteps) + 1

\* C37 (rejections): a start of a server recorded RUNNING or STARTING, or of
\* no row of the account, is answered without any command.
C37_RejectedStartIssuesNothing ==
    \A p \in Procs :
        (proc[p].op = "start" /\ proc[p].resp \in {"Conflict", "NotFound",
                                                   "Forbidden"})
            => proc[p].bg = "none"

\* C37: `systemctl start` of a server is issued only after the
\* setupServerOnRemote of that server has completed successfully.
C37_StartAfterSetup ==
    [][\A p \in Procs :
          (proc[p].op = "start" /\ proc[p].bg = "exec"
             /\ proc'[p].bg # "exec")
              => Provisioned(proc[p].srv)]_vars

\* C38 (the writers of STOPPED): a step that sets a row to STOPPED, from
\* another status, leaves its currentPlayers null.
C38_StoppingClearsPlayers ==
    [][\A s \in Servers :
          (db[s].exists /\ db[s].status # "STOPPED"
             /\ db'[s].exists /\ db'[s].status = "STOPPED")
              => ~db'[s].currentPlayers]_vars

\* C38: a row that is STOPPED has no player count (currentPlayers is null).
C38_StoppedHasNoPlayers ==
    \A s \in Servers :
        (db[s].exists /\ db[s].status = "STOPPED") => ~db[s].currentPlayers

\* The row as a connection test leaves it: CONNECTED with the capacity the
\* test discovered and no error message, or ERROR with an error message;
\* in both cases with the last-check time stamped.
Tested ==
    /\ remote.row.status \in {"CONNECTED", "ERROR"}
    /\ remote.row.lastCheckAt # 0
    /\ remote.row.status = "CONNECTED"
          => /\ remote.row.lastErrorMsg = "null"
             /\ LET t == remote.test[remote.row.lastCheckAt]
                IN  /\ remote.row.totalRamMb = t.totalRamMb
                    /\ remote.row.totalCpuCores = t.totalCpuCores
                    /\ remote.row.diskSpaceGb = t.diskSpaceGb
                    /\ remote.row.osType = t.osType
    /\ remote.row.status = "ERROR" => remote.row.lastErrorMsg # "null"

C40_NewSessionUsesPassedCredentials ==
    [][\A r \in Callers :
          (call[r].pc = "connect" /\ call'[r].pc = "done")
              => remote.built[call'[r].got] = remote.asked[r]]_vars

\* C40: a remote command that read the row after the last update of the
\* host's address or credentials runs on a session that was established
\* with those updated values.
C40_CommandsUseUpdatedCredentials ==
    [][\A r \in Callers :
          (call[r].pc # "done" /\ call'[r].pc = "done"
             /\ remote.asked[r] = remote.row.creds)
              => remote.built[call'[r].got] = remote.row.creds]_vars

====
